---- MODULE Spec2Model ----
(***************************************************************************)
(* A model of the 6502 emulator core: the Cpu struct (cpu.rs), its         *)
(* fetch-decode-execute loop and opcode handlers, the instruction decoder  *)
(* (opcode.rs) and the Memory store (mem.rs).                              *)
(*                                                                         *)
(* A Rust panic (panic!, todo!, expect on None, a failed assert, an index  *)
(* out of bounds, an arithmetic overflow in a build with overflow checks)  *)
(* ends the process; the model records it in the variable panic and takes  *)
(* no further step.  The registers and memory keep the values they had at  *)
(* the moment of the panic.                                                *)
(***************************************************************************)
EXTENDS Integers, Sequences, FiniteSets, TLC

VARIABLES
    image,              \* the Memory handed to Cpu::new (never changes)
    plan,               \* the caller's pending run(instruction_limit) calls
    debug_assertions,   \* the build: TRUE = debug (cfg(debug_assertions), overflow checks)
    memory,             \* Cpu.memory
    pc,                 \* Cpu.pc
    sp,                 \* Cpu.sp
    a,                  \* Cpu.a
    x,                  \* Cpu.x
    y,                  \* Cpu.y
    status,             \* Cpu.status, as ProcessorStatus::bits()
    panic,              \* NoPanic, or the message of the panic that ended the process
    running,            \* TRUE while a call of Cpu::run is on the stack
    limit,              \* instruction_limit of the current (or last) call of run
    i,                  \* iterations of run's loop completed in the current (or last) call
    runs,               \* calls of run that have returned
    last,               \* what the last call of execute_next_instruction did
    shadow,             \* the bytes pushed and not yet popped, oldest first
    calls,              \* the instruction_limit of every call of run so far, in order
    access              \* the last call of Memory::write or Memory::read made directly

vars == <<image, plan, debug_assertions, memory, pc, sp, a, x, y, status,
          panic, running, limit, i, runs, last, shadow, calls,
          access>>

cpuVars == <<memory, pc, sp, a, x, y, status>>

---------------------------------------------------------------------------
(* Byte = u8, Word = u16 and the constants of cpu.rs and mem.rs *)

ByteModulus == 256
WordModulus == 65536
Byte == 0 .. (ByteModulus - 1)
Word == 0 .. (WordModulus - 1)

CODE_START == 49152
STACK_START == 256
STACK_END == 511
MAX_MEMORY == 65535
SP_INIT == 255
STDOUT_PORT == 15

Carry == 1
Zero == 2
InterruptDisable == 4
DecimalMode == 8
Break == 16
Unused == 32
Overflow == 64
Negative == 128

StatusEmpty == 0

NoPanic == "none"
\* Option<usize>: None is the empty sequence, Some(n) the sequence <<n>>
None == <<>>
Some(n) == <<n>>

---------------------------------------------------------------------------
(* u8/u16 bit operations *)

Bit(v, k) == (v \div (2 ^ k)) % 2

BitAnd(v, w) ==
    LET f[k \in 0 .. 16] ==
            IF k = 16 THEN 0 ELSE Bit(v, k) * Bit(w, k) * (2 ^ k) + f[k + 1]
    IN f[0]

BitOr(v, w) == v + w - BitAnd(v, w)

BitXor(v, w) == v + w - 2 * BitAnd(v, w)

\* (high_byte as Word) << 8 | (low_byte as Word)
MakeWord(high_byte, low_byte) == high_byte * ByteModulus + low_byte

\* ProcessorStatus::contains
Contains(bits, flag) == BitAnd(bits, flag) = flag

\* ProcessorStatus::set(flag, value)
SetFlag(bits, flag, value) ==
    IF value THEN BitOr(bits, flag) ELSE bits - BitAnd(bits, flag)

\* ProcessorStatus::from_bits_truncate: every bit of the byte is a declared flag
\* (bit 5 is declared as _Unused), so nothing is truncated
AllFlags ==
    Carry + Zero + InterruptDisable + DecimalMode + Break + Unused + Overflow + Negative

FromBitsTruncate(byte) == BitAnd(byte, AllFlags)

---------------------------------------------------------------------------
(* Memory (mem.rs): data: [u8; MAX_MEMORY], all zero after Memory::new.    *)
(* The array is kept sparse: a function from the addresses that hold a     *)
(* non-zero byte to that byte; every other index in 0 .. MAX_MEMORY-1      *)
(* holds 0.                                                                *)

MemoryNew == <<>>

Peek(m, address) == IF address \in DOMAIN m THEN m[address] ELSE 0

Poke(m, address, data) ==
    IF data = 0
    THEN [k \in (DOMAIN m) \ {address} |-> m[k]]
    ELSE [k \in (DOMAIN m) \cup {address} |-> IF k = address THEN data ELSE m[k]]

\* Memory::read
MemoryRead(m, address) ==
    IF address = STDOUT_PORT
    THEN [panic |-> "read at 0x0F", value |-> 0]
    ELSE IF address >= MAX_MEMORY
    THEN [panic |-> "index out of bounds", value |-> 0]
    ELSE [panic |-> NoPanic, value |-> Peek(m, address)]

\* Memory::write (the character printed for address 0x0F is console output)
MemoryWrite(m, address, data) ==
    IF address >= MAX_MEMORY
    THEN [panic |-> "index out of bounds", memory |-> m]
    ELSE [panic |-> NoPanic, memory |-> Poke(m, address, data)]

---------------------------------------------------------------------------
(* The instruction decoder (opcode.rs) *)

DecodeError == [ok |-> FALSE, opcode |-> "DecodeError", addressing_mode |-> "DecodeError"]

Ok(op, mode) == [ok |-> TRUE, opcode |-> op, addressing_mode |-> mode]

\* the match of try_from: one arm per assigned byte, `_ => Err(DecodeError)`
DecodeTable(value) ==
    CASE
       value = 105 -> Ok("Adc", "Immediate")
    [] value = 101 -> Ok("Adc", "ZeroPage")
    [] value = 117 -> Ok("Adc", "ZeroPageX")
    [] value = 109 -> Ok("Adc", "Absolute")
    [] value = 125 -> Ok("Adc", "AbsoluteX")
    [] value = 121 -> Ok("Adc", "AbsoluteY")
    [] value = 97 -> Ok("Adc", "IndexedIndirect")
    [] value = 113 -> Ok("Adc", "IndirectIndexed")
    [] value = 41 -> Ok("And", "Immediate")
    [] value = 37 -> Ok("And", "ZeroPage")
    [] value = 53 -> Ok("And", "ZeroPageX")
    [] value = 45 -> Ok("And", "Absolute")
    [] value = 61 -> Ok("And", "AbsoluteX")
    [] value = 57 -> Ok("And", "AbsoluteY")
    [] value = 33 -> Ok("And", "IndexedIndirect")
    [] value = 49 -> Ok("And", "IndirectIndexed")
    [] value = 10 -> Ok("Asl", "Accumulator")
    [] value = 6 -> Ok("Asl", "ZeroPage")
    [] value = 22 -> Ok("Asl", "ZeroPageX")
    [] value = 14 -> Ok("Asl", "Absolute")
    [] value = 30 -> Ok("Asl", "AbsoluteX")
    [] value = 144 -> Ok("Bcc", "Relative")
    [] value = 176 -> Ok("Bcs", "Relative")
    [] value = 240 -> Ok("Beq", "Relative")
    [] value = 36 -> Ok("Bit", "ZeroPage")
    [] value = 44 -> Ok("Bit", "Absolute")
    [] value = 48 -> Ok("Bmi", "Relative")
    [] value = 208 -> Ok("Bne", "Relative")
    [] value = 16 -> Ok("Bpl", "Relative")
    [] value = 0 -> Ok("Brk", "Implicit")
    [] value = 80 -> Ok("Bvc", "Relative")
    [] value = 112 -> Ok("Bvs", "Relative")
    [] value = 24 -> Ok("Clc", "Implicit")
    [] value = 216 -> Ok("Cld", "Implicit")
    [] value = 88 -> Ok("Cli", "Implicit")
    [] value = 184 -> Ok("Clv", "Implicit")
    [] value = 201 -> Ok("Cmp", "Immediate")
    [] value = 197 -> Ok("Cmp", "ZeroPage")
    [] value = 213 -> Ok("Cmp", "ZeroPageX")
    [] value = 205 -> Ok("Cmp", "Absolute")
    [] value = 221 -> Ok("Cmp", "AbsoluteX")
    [] value = 217 -> Ok("Cmp", "AbsoluteY")
    [] value = 193 -> Ok("Cmp", "IndexedIndirect")
    [] value = 209 -> Ok("Cmp", "IndirectIndexed")
    [] value = 224 -> Ok("Cpx", "Immediate")
    [] value = 228 -> Ok("Cpx", "ZeroPage")
    [] value = 236 -> Ok("Cpx", "Absolute")
    [] value = 192 -> Ok("Cpy", "Immediate")
    [] value = 196 -> Ok("Cpy", "ZeroPage")
    [] value = 204 -> Ok("Cpy", "Absolute")
    [] value = 198 -> Ok("Dec", "ZeroPage")
    [] value = 214 -> Ok("Dec", "ZeroPageX")
    [] value = 206 -> Ok("Dec", "Absolute")
    [] value = 222 -> Ok("Dec", "AbsoluteX")
    [] value = 202 -> Ok("Dex", "Implicit")
    [] value = 136 -> Ok("Dey", "Implicit")
    [] value = 73 -> Ok("Eor", "Immediate")
    [] value = 69 -> Ok("Eor", "ZeroPage")
    [] value = 85 -> Ok("Eor", "ZeroPageX")
    [] value = 77 -> Ok("Eor", "Absolute")
    [] value = 93 -> Ok("Eor", "AbsoluteX")
    [] value = 89 -> Ok("Eor", "AbsoluteY")
    [] value = 65 -> Ok("Eor", "IndexedIndirect")
    [] value = 81 -> Ok("Eor", "IndirectIndexed")
    [] value = 230 -> Ok("Inc", "ZeroPage")
    [] value = 246 -> Ok("Inc", "ZeroPageX")
    [] value = 238 -> Ok("Inc", "Absolute")
    [] value = 254 -> Ok("Inc", "AbsoluteX")
    [] value = 232 -> Ok("Inx", "Implicit")
    [] value = 200 -> Ok("Iny", "Implicit")
    [] value = 76 -> Ok("Jmp", "Absolute")
    [] value = 108 -> Ok("Jmp", "Indirect")
    [] value = 32 -> Ok("Jsr", "Absolute")
    [] value = 169 -> Ok("Lda", "Immediate")
    [] value = 165 -> Ok("Lda", "ZeroPage")
    [] value = 181 -> Ok("Lda", "ZeroPageX")
    [] value = 173 -> Ok("Lda", "Absolute")
    [] value = 189 -> Ok("Lda", "AbsoluteX")
    [] value = 185 -> Ok("Lda", "AbsoluteY")
    [] value = 161 -> Ok("Lda", "IndexedIndirect")
    [] value = 177 -> Ok("Lda", "IndirectIndexed")
    [] value = 162 -> Ok("Ldx", "Immediate")
    [] value = 166 -> Ok("Ldx", "ZeroPage")
    [] value = 182 -> Ok("Ldx", "ZeroPageY")
    [] value = 174 -> Ok("Ldx", "Absolute")
    [] value = 190 -> Ok("Ldx", "AbsoluteY")
    [] value = 160 -> Ok("Ldy", "Immediate")
    [] value = 164 -> Ok("Ldy", "ZeroPage")
    [] value = 180 -> Ok("Ldy", "ZeroPageX")
    [] value = 172 -> Ok("Ldy", "Absolute")
    [] value = 188 -> Ok("Ldy", "AbsoluteX")
    [] value = 74 -> Ok("Lsr", "Accumulator")
    [] value = 70 -> Ok("Lsr", "ZeroPage")
    [] value = 86 -> Ok("Lsr", "ZeroPageX")
    [] value = 78 -> Ok("Lsr", "Absolute")
    [] value = 94 -> Ok("Lsr", "AbsoluteX")
    [] value = 234 -> Ok("Nop", "Implicit")
    [] value = 9 -> Ok("Ora", "Immediate")
    [] value = 5 -> Ok("Ora", "ZeroPage")
    [] value = 21 -> Ok("Ora", "ZeroPageX")
    [] value = 13 -> Ok("Ora", "Absolute")
    [] value = 29 -> Ok("Ora", "AbsoluteX")
    [] value = 25 -> Ok("Ora", "AbsoluteY")
    [] value = 1 -> Ok("Ora", "IndexedIndirect")
    [] value = 17 -> Ok("Ora", "IndirectIndexed")
    [] value = 72 -> Ok("Pha", "Implicit")
    [] value = 8 -> Ok("Php", "Implicit")
    [] value = 104 -> Ok("Pla", "Implicit")
    [] value = 40 -> Ok("Plp", "Implicit")
    [] value = 42 -> Ok("Rol", "Accumulator")
    [] value = 38 -> Ok("Rol", "ZeroPage")
    [] value = 54 -> Ok("Rol", "ZeroPageX")
    [] value = 46 -> Ok("Rol", "Absolute")
    [] value = 62 -> Ok("Rol", "AbsoluteX")
    [] value = 106 -> Ok("Ror", "Accumulator")
    [] value = 102 -> Ok("Ror", "ZeroPage")
    [] value = 118 -> Ok("Ror", "ZeroPageX")
    [] value = 110 -> Ok("Ror", "Absolute")
    [] value = 126 -> Ok("Ror", "AbsoluteX")
    [] value = 64 -> Ok("Rti", "Implicit")
    [] value = 96 -> Ok("Rts", "Implicit")
    [] value = 233 -> Ok("Sbc", "Immediate")
    [] value = 229 -> Ok("Sbc", "ZeroPage")
    [] value = 245 -> Ok("Sbc", "ZeroPageX")
    [] value = 237 -> Ok("Sbc", "Absolute")
    [] value = 253 -> Ok("Sbc", "AbsoluteX")
    [] value = 249 -> Ok("Sbc", "AbsoluteY")
    [] value = 225 -> Ok("Sbc", "IndexedIndirect")
    [] value = 241 -> Ok("Sbc", "IndirectIndexed")
    [] value = 56 -> Ok("Sec", "Implicit")
    [] value = 248 -> Ok("Sed", "Implicit")
    [] value = 120 -> Ok("Sei", "Implicit")
    [] value = 133 -> Ok("Sta", "ZeroPage")
    [] value = 149 -> Ok("Sta", "ZeroPageX")
    [] value = 141 -> Ok("Sta", "Absolute")
    [] value = 157 -> Ok("Sta", "AbsoluteX")
    [] value = 153 -> Ok("Sta", "AbsoluteY")
    [] value = 129 -> Ok("Sta", "IndexedIndirect")
    [] value = 145 -> Ok("Sta", "IndirectIndexed")
    [] value = 134 -> Ok("Stx", "ZeroPage")
    [] value = 150 -> Ok("Stx", "ZeroPageY")
    [] value = 142 -> Ok("Stx", "Absolute")
    [] value = 132 -> Ok("Sty", "ZeroPage")
    [] value = 148 -> Ok("Sty", "ZeroPageX")
    [] value = 140 -> Ok("Sty", "Absolute")
    [] value = 170 -> Ok("Tax", "Implicit")
    [] value = 168 -> Ok("Tay", "Implicit")
    [] value = 186 -> Ok("Tsx", "Implicit")
    [] value = 138 -> Ok("Txa", "Implicit")
    [] value = 154 -> Ok("Txs", "Implicit")
    [] value = 152 -> Ok("Tya", "Implicit")
    [] OTHER -> DecodeError

\* a table slip: 0x96 (STX zp,Y) entered with the mode of its neighbours
TryFromSlip(value) ==
    IF value = 150 THEN Ok("Stx", "ZeroPageX") ELSE DecodeTable(value)

\* impl TryFrom<Byte> for Instruction
TryFrom(value) == DecodeTable(value)

---------------------------------------------------------------------------
(* The Cpu.  Inside one call of execute_next_instruction the Cpu is a      *)
(* record c: the fields of the struct, the panic raised so far (NoPanic    *)
(* when none), ret (the value the last helper returned), the locals        *)
(* opcode and instruction of execute_next_instruction, and trace (the      *)
(* stack and memory-write accesses made so far, in order).  A helper       *)
(* called after a panic does nothing: that is how the `;` of the source    *)
(* reads once a statement has panicked.                                    *)

Alive(c) == c.panic = NoPanic

Panic(c, message) == [c EXCEPT !.panic = message]

\* `let r = <c>; <F(r)>`, skipped when <c> panicked.  The value of <c> is
\* taken once, as a `let` does: r ranges over the one-element set {c}.
Bind(c, F(_)) ==
    CHOOSE out \in {IF r.panic = NoPanic THEN F(r) ELSE r : r \in {c}} : TRUE

\* `let w = <v>; <F(w)>`
With(v, F(_)) == CHOOSE out \in {F(w) : w \in {v}} : TRUE

\* the stack pointer confused with the stack's base address
CpuNewStackAtBase(m) ==
    [memory |-> m, pc |-> CODE_START, sp |-> 0, a |-> 0, x |-> 0, y |-> 0,
     status |-> StatusEmpty]

\* Cpu::new
CpuNew(m) ==
    [memory |-> m, pc |-> CODE_START, sp |-> SP_INIT, a |-> 0, x |-> 0, y |-> 0,
     status |-> StatusEmpty]

\* self.memory.read(address)
Read(c, address) ==
    IF ~Alive(c) THEN c
    ELSE With(MemoryRead(c.memory, address), LAMBDA r :
            IF r.panic # NoPanic THEN Panic(c, r.panic) ELSE [c EXCEPT !.ret = r.value])

\* self.memory.write(address, data)
Write(c, address, data) ==
    IF ~Alive(c) THEN c
    ELSE With(MemoryWrite(c.memory, address, data), LAMBDA r :
            IF r.panic # NoPanic THEN Panic(c, r.panic)
            ELSE [c EXCEPT !.memory = r.memory,
                           !.trace = Append(@, [op |-> "write", address |-> address,
                                                value |-> data, done |-> TRUE])])

\* u16 `+ n`: panics in a build with overflow checks, wraps otherwise
AddWord(c, v, n) ==
    IF ~Alive(c) THEN c
    ELSE IF v + n >= WordModulus
    THEN IF debug_assertions
         THEN Panic(c, "attempt to add with overflow")
         ELSE [c EXCEPT !.ret = (v + n) % WordModulus]
    ELSE [c EXCEPT !.ret = v + n]

\* u16 `- n`: panics in a build with overflow checks, wraps otherwise
SubWord(c, v, n) ==
    IF ~Alive(c) THEN c
    ELSE IF v - n < 0
    THEN IF debug_assertions
         THEN Panic(c, "attempt to subtract with overflow")
         ELSE [c EXCEPT !.ret = (v - n) % WordModulus]
    ELSE [c EXCEPT !.ret = v - n]

\* u8::wrapping_add
WrappingAddByte(v, w) == (v + w) % ByteModulus

\* u16::wrapping_add
WrappingAddWord(v, w) == (v + w) % WordModulus

\* a fetch from a copy of the program taken when the Cpu was constructed
fetch_from_image(c) ==
    Bind(Read([c EXCEPT !.memory = image], c.pc), LAMBDA r :
        Bind(AddWord(r, r.pc, 1), LAMBDA n :
            [n EXCEPT !.pc = n.ret, !.ret = r.ret, !.memory = c.memory]))

\* Cpu::fetch_and_advance_pc
fetch_and_advance_pc(c) ==
    Bind(Read(c, c.pc), LAMBDA r :
        Bind(AddWord(r, r.pc, 1), LAMBDA n : [n EXCEPT !.pc = n.ret, !.ret = r.ret]))

\* Cpu::set_zero_and_negative_flags
set_zero_and_negative_flags(c, value) ==
    IF ~Alive(c) THEN c
    ELSE [c EXCEPT !.status =
              SetFlag(SetFlag(@, Zero, value = 0), Negative, BitAnd(value, 128) > 0)]

\* a push that wraps the stack pointer as the hardware does
push_wrapping(c, byte) ==
    Bind(Write(c, STACK_START + c.sp, byte), LAMBDA w :
        [w EXCEPT !.trace = Append(c.trace,
                      [op |-> "push", address |-> STACK_START + c.sp, value |-> byte,
                       done |-> TRUE]),
                  !.sp = (c.sp + ByteModulus - 1) % ByteModulus])

\* a push that tests the stack pointer before it writes
push_checked_first(c, byte) ==
    IF ~Alive(c) THEN c
    ELSE IF c.sp = 0
    THEN Panic([c EXCEPT !.trace = Append(c.trace,
                    [op |-> "push", address |-> STACK_START + c.sp, value |-> byte,
                     done |-> FALSE])], "stack overflow")
    ELSE Bind(Write(c, STACK_START + c.sp, byte), LAMBDA w :
            [w EXCEPT !.trace = Append(c.trace,
                          [op |-> "push", address |-> STACK_START + c.sp, value |-> byte,
                           done |-> TRUE]),
                      !.sp = c.sp - 1])

\* Cpu::push
push(c, byte) ==
    Bind(Write(c, STACK_START + c.sp, byte), LAMBDA w :
        With([w EXCEPT !.trace = Append(c.trace,
                  [op |-> "push", address |-> STACK_START + c.sp, value |-> byte,
                   done |-> c.sp > 0])], LAMBDA t :
            IF c.sp = 0 THEN Panic(t, "stack overflow") ELSE [t EXCEPT !.sp = c.sp - 1]))

\* a pop that reads before it increments
pop_before_increment(c) ==
    IF ~Alive(c) THEN c
    ELSE IF c.sp = ByteModulus - 1 THEN Panic(c, "stack underflow")
    ELSE Bind(Read([c EXCEPT !.sp = c.sp + 1], STACK_START + c.sp), LAMBDA r :
            [r EXCEPT !.trace = Append(@, [op |-> "pop", address |-> STACK_START + c.sp,
                                            value |-> r.ret, done |-> TRUE])])

\* Cpu::pop
pop(c) ==
    IF ~Alive(c) THEN c
    ELSE IF c.sp = ByteModulus - 1 THEN Panic(c, "stack underflow")
    ELSE Bind(Read([c EXCEPT !.sp = c.sp + 1], STACK_START + c.sp + 1), LAMBDA r :
            [r EXCEPT !.trace = Append(@, [op |-> "pop", address |-> STACK_START + r.sp,
                                            value |-> r.ret, done |-> TRUE])])

\* a two-byte operand fetch that reads both bytes but advances pc past one
FetchWordShort(c) ==
    Bind(fetch_and_advance_pc(c), LAMBDA lo :
        Bind(fetch_and_advance_pc(lo), LAMBDA hi :
            [hi EXCEPT !.ret = MakeWord(hi.ret, lo.ret), !.pc = lo.pc]))

\* the two-byte little-endian operand read by the Absolute, AbsoluteX, AbsoluteY
\* and Indirect arms of resolve_argument_address
FetchWord(c) ==
    Bind(fetch_and_advance_pc(c), LAMBDA lo :
        Bind(fetch_and_advance_pc(lo), LAMBDA hi :
            [hi EXCEPT !.ret = MakeWord(hi.ret, lo.ret)]))

\* a pointer read that takes the high byte from the page of the low byte, as
\* the original processor does for a pointer at the end of a page
ReadPointerSamePage(c, address) ==
    Bind(Read(c, address), LAMBDA lo :
        Bind(Read(lo, ((address \div ByteModulus) * ByteModulus)
                          + ((address + 1) % ByteModulus)), LAMBDA hi :
            [hi EXCEPT !.ret = MakeWord(hi.ret, lo.ret)]))

\* the little-endian word at address and address + 1, as the Indirect,
\* IndexedIndirect and IndirectIndexed arms read it
ReadPointer(c, address) ==
    Bind(Read(c, address), LAMBDA lo :
        Bind(AddWord(lo, address, 1), LAMBDA nx :
            Bind(Read(nx, nx.ret), LAMBDA hi :
                [hi EXCEPT !.ret = MakeWord(hi.ret, lo.ret)])))

\* Cpu::resolve_argument_address
resolve_argument_address(c, addressing_mode) ==
    IF ~Alive(c) THEN c
    ELSE CASE addressing_mode \in {"Accumulator", "Implicit", "Immediate"} ->
                Panic(c, "unreachable: addressing mode does not have an address")
           [] addressing_mode = "ZeroPage" -> fetch_and_advance_pc(c)
           [] addressing_mode = "ZeroPageX" ->
                Bind(fetch_and_advance_pc(c), LAMBDA f :
                    [f EXCEPT !.ret = WrappingAddByte(f.ret, f.x)])
           [] addressing_mode = "ZeroPageY" ->
                Bind(fetch_and_advance_pc(c), LAMBDA f :
                    [f EXCEPT !.ret = WrappingAddByte(f.ret, f.y)])
           [] addressing_mode = "Absolute" -> FetchWord(c)
           [] addressing_mode = "AbsoluteX" ->
                Bind(FetchWord(c), LAMBDA f :
                    [f EXCEPT !.ret = WrappingAddWord(f.ret, f.x)])
           [] addressing_mode = "AbsoluteY" ->
                Bind(FetchWord(c), LAMBDA f :
                    [f EXCEPT !.ret = WrappingAddWord(f.ret, f.y)])
           [] addressing_mode = "Indirect" ->
                Bind(FetchWord(c), LAMBDA f : ReadPointer(f, f.ret))
           [] addressing_mode = "IndexedIndirect" ->
                Bind(fetch_and_advance_pc(c), LAMBDA f :
                    ReadPointer(f, WrappingAddByte(f.ret, f.x)))
           [] addressing_mode = "IndirectIndexed" ->
                Bind(fetch_and_advance_pc(c), LAMBDA f :
                    Bind(ReadPointer(f, f.ret), LAMBDA p :
                        [p EXCEPT !.ret = WrappingAddWord(p.ret, p.y)]))
           [] OTHER -> Panic(c, "not implemented: addressing mode")

\* an operand fetch without the early return for Immediate
resolve_argument_value_no_immediate(c, addressing_mode) ==
    IF ~Alive(c) THEN c
    ELSE IF addressing_mode = "Accumulator" THEN [c EXCEPT !.ret = c.a]
    ELSE Bind(resolve_argument_address(c, addressing_mode), LAMBDA r : Read(r, r.ret))

\* Cpu::resolve_argument_value
resolve_argument_value(c, addressing_mode) ==
    IF ~Alive(c) THEN c
    ELSE IF addressing_mode = "Immediate" THEN fetch_and_advance_pc(c)
    ELSE IF addressing_mode = "Accumulator" THEN [c EXCEPT !.ret = c.a]
    ELSE Bind(resolve_argument_address(c, addressing_mode), LAMBDA r : Read(r, r.ret))

---------------------------------------------------------------------------
(* The opcode handlers of cpu.rs *)

\* debug_assert_eq!(addressing_mode, ..): compiled only with debug assertions
DebugAssertEq(c, addressing_mode, expected) ==
    IF Alive(c) /\ debug_assertions /\ addressing_mode # expected
    THEN Panic(c, "assertion failed: left == right")
    ELSE c

\* todo!()
Todo(c) == Panic(c, "not yet implemented")

\* the overflow test of execute_adc
AdcOverflow(acc, value, new_value) ==
    BitAnd(BitAnd(BitXor(acc, new_value), BitXor(value, new_value)), 128) > 0

\* an add with carry-in, as the hardware instruction does it
execute_adc_with_carry(c, addressing_mode) ==
    Bind(resolve_argument_value(c, addressing_mode), LAMBDA v :
        With(v.a + v.ret + (IF Contains(v.status, Carry) THEN 1 ELSE 0), LAMBDA sum :
            set_zero_and_negative_flags(
                [v EXCEPT !.status = SetFlag(SetFlag(@, Carry, sum >= ByteModulus),
                                             Overflow,
                                             AdcOverflow(v.a, v.ret, sum % ByteModulus)),
                          !.a = sum % ByteModulus],
                sum % ByteModulus)))

\* Cpu::execute_adc
execute_adc(c, addressing_mode) ==
    Bind(resolve_argument_value(c, addressing_mode), LAMBDA v :
        With((v.a + v.ret) % ByteModulus, LAMBDA new_value :
            set_zero_and_negative_flags(
                [v EXCEPT !.status = SetFlag(SetFlag(@, Carry, v.a + v.ret >= ByteModulus),
                                             Overflow, AdcOverflow(v.a, v.ret, new_value)),
                          !.a = new_value],
                new_value)))

\* a jump that saves the address of its last byte on the stack, as a call does
execute_jmp_pushes(c, addressing_mode) ==
    Bind(resolve_argument_address(c, addressing_mode), LAMBDA r :
        Bind(SubWord(r, r.pc, 1), LAMBDA s :
            Bind(push(s, s.ret \div ByteModulus), LAMBDA h :
                Bind(push(h, s.ret % ByteModulus), LAMBDA l :
                    [l EXCEPT !.pc = r.ret]))))

\* Cpu::execute_jmp
execute_jmp(c, addressing_mode) ==
    Bind(resolve_argument_address(c, addressing_mode), LAMBDA r : [r EXCEPT !.pc = r.ret])

\* a call that pushes the low byte of the return address first
execute_jsr_low_first(c, addressing_mode) ==
    Bind(resolve_argument_address(DebugAssertEq(c, addressing_mode, "Absolute"),
                                  addressing_mode), LAMBDA r :
        Bind(SubWord(r, r.pc, 1), LAMBDA s :
            Bind(push(s, s.ret % ByteModulus), LAMBDA l :
                Bind(push(l, s.ret \div ByteModulus), LAMBDA h :
                    [h EXCEPT !.pc = r.ret]))))

\* Cpu::execute_jsr
execute_jsr(c, addressing_mode) ==
    Bind(resolve_argument_address(DebugAssertEq(c, addressing_mode, "Absolute"),
                                  addressing_mode), LAMBDA r :
        Bind(SubWord(r, r.pc, 1), LAMBDA s :
            Bind(push(s, s.ret \div ByteModulus), LAMBDA h :
                Bind(push(h, s.ret % ByteModulus), LAMBDA l :
                    [l EXCEPT !.pc = r.ret]))))

\* Cpu::execute_lda
execute_lda(c, addressing_mode) ==
    Bind(resolve_argument_value(c, addressing_mode), LAMBDA v :
        [set_zero_and_negative_flags(v, v.ret) EXCEPT !.a = v.ret])

\* Cpu::execute_ldx
execute_ldx(c, addressing_mode) ==
    Bind(resolve_argument_value(c, addressing_mode), LAMBDA v :
        [set_zero_and_negative_flags(v, v.ret) EXCEPT !.x = v.ret])

\* a load that puts the operand of LDY in X
execute_ldy_into_x(c, addressing_mode) ==
    Bind(resolve_argument_value(c, addressing_mode), LAMBDA v :
        [set_zero_and_negative_flags(v, v.ret) EXCEPT !.x = v.ret])

\* Cpu::execute_ldy
execute_ldy(c, addressing_mode) ==
    Bind(resolve_argument_value(c, addressing_mode), LAMBDA v :
        [set_zero_and_negative_flags(v, v.ret) EXCEPT !.y = v.ret])

\* the closure lsr of execute_lsr
LsrClosure(c, value) ==
    [set_zero_and_negative_flags(
         [c EXCEPT !.status = SetFlag(@, Carry, BitAnd(value, 1) > 0)], value \div 2)
        EXCEPT !.ret = value \div 2]

\* a rotate left that shifts in 0 whatever Carry is
RolClosureShiftsZero(c, value) ==
    With((value * 2) % ByteModulus, LAMBDA new_value :
        [set_zero_and_negative_flags(c, new_value)
            EXCEPT !.a = new_value,
                   !.status = SetFlag(@, Carry, BitAnd(value, 128) > 0),
                   !.ret = new_value])

\* the closure rol of execute_rol
RolClosure(c, value) ==
    With(IF Contains(c.status, Carry)
         THEN BitOr((value * 2) % ByteModulus, 1)
         ELSE (value * 2) % ByteModulus, LAMBDA new_value :
        [set_zero_and_negative_flags(c, new_value)
            EXCEPT !.a = new_value,
                   !.status = SetFlag(@, Carry, BitAnd(value, 128) > 0),
                   !.ret = new_value])

\* the closure ror of execute_ror
RorClosure(c, value) ==
    With(IF Contains(c.status, Carry)
         THEN BitOr(value \div 2, 128)
         ELSE value \div 2, LAMBDA new_value :
        [set_zero_and_negative_flags(c, new_value)
            EXCEPT !.a = new_value,
                   !.status = SetFlag(@, Carry, BitAnd(value, 1) > 0),
                   !.ret = new_value])

\* the body shared by execute_lsr, execute_rol and execute_ror after the
\* closure is defined: the Accumulator case, else read, apply, write back
ShiftBody(c, addressing_mode, Closure(_, _)) ==
    IF ~Alive(c) THEN c
    ELSE IF addressing_mode = "Accumulator"
    THEN With(Closure(c, c.a), LAMBDA n : [n EXCEPT !.a = n.ret])
    ELSE Bind(resolve_argument_address(c, addressing_mode), LAMBDA r :
            Bind(Read(r, r.ret), LAMBDA v :
                With(Closure(v, v.ret), LAMBDA n : Write(n, r.ret, n.ret))))

\* Cpu::execute_lsr
execute_lsr(c, addressing_mode) ==
    IF addressing_mode = "Immediate"
    THEN Panic(c, "assertion failed: left != right")
    ELSE ShiftBody(c, addressing_mode, LsrClosure)

\* Cpu::execute_ora
execute_ora(c, addressing_mode) ==
    Bind(resolve_argument_value(c, addressing_mode), LAMBDA v :
        With(BitOr(v.a, v.ret), LAMBDA new_value :
            set_zero_and_negative_flags([v EXCEPT !.a = new_value], new_value)))

\* Cpu::execute_pha
execute_pha(c, addressing_mode) ==
    Bind(DebugAssertEq(c, addressing_mode, "Implicit"), LAMBDA d : push(d, d.a))

\* Cpu::execute_php
execute_php(c, addressing_mode) ==
    Bind(DebugAssertEq(c, addressing_mode, "Implicit"), LAMBDA d : push(d, d.status))

\* Cpu::execute_pla
execute_pla(c, addressing_mode) ==
    Bind(pop(DebugAssertEq(c, addressing_mode, "Implicit")), LAMBDA p :
        set_zero_and_negative_flags([p EXCEPT !.a = p.ret], p.ret))

\* Cpu::execute_plp
execute_plp(c, addressing_mode) ==
    Bind(pop(DebugAssertEq(c, addressing_mode, "Implicit")), LAMBDA p :
        [p EXCEPT !.status = FromBitsTruncate(p.ret)])

\* Cpu::execute_rol
execute_rol(c, addressing_mode) == ShiftBody(c, addressing_mode, RolClosure)

\* Cpu::execute_ror
execute_ror(c, addressing_mode) == ShiftBody(c, addressing_mode, RorClosure)

\* a return from interrupt that adds 1 to the popped address, as RTS does
execute_rti_increments(c, addressing_mode) ==
    Bind(pop(DebugAssertEq(c, addressing_mode, "Implicit")), LAMBDA p :
        Bind(pop([p EXCEPT !.status = FromBitsTruncate(p.ret)]), LAMBDA lo :
            Bind(pop(lo), LAMBDA hi :
                Bind(AddWord([hi EXCEPT !.pc = MakeWord(hi.ret, lo.ret)],
                             MakeWord(hi.ret, lo.ret), 1), LAMBDA n :
                    [n EXCEPT !.pc = n.ret]))))

\* Cpu::execute_rti
execute_rti(c, addressing_mode) ==
    Bind(pop(DebugAssertEq(c, addressing_mode, "Implicit")), LAMBDA p :
        Bind(pop([p EXCEPT !.status = FromBitsTruncate(p.ret)]), LAMBDA lo :
            Bind(pop(lo), LAMBDA hi :
                [hi EXCEPT !.pc = MakeWord(hi.ret, lo.ret)])))

\* a return that forgets the `+ 1`
execute_rts_no_increment(c, addressing_mode) ==
    Bind(pop(DebugAssertEq(c, addressing_mode, "Implicit")), LAMBDA lo :
        Bind(pop(lo), LAMBDA hi : [hi EXCEPT !.pc = MakeWord(hi.ret, lo.ret)]))

\* Cpu::execute_rts
execute_rts(c, addressing_mode) ==
    Bind(pop(DebugAssertEq(c, addressing_mode, "Implicit")), LAMBDA lo :
        Bind(pop(lo), LAMBDA hi :
            Bind(AddWord([hi EXCEPT !.pc = MakeWord(hi.ret, lo.ret)],
                         MakeWord(hi.ret, lo.ret), 1), LAMBDA n :
                [n EXCEPT !.pc = n.ret])))

\* the handlers whose body is todo!()
TodoOpcodes ==
    {"And", "Asl", "Bcc", "Bcs", "Beq", "Bit", "Bmi", "Bne", "Bpl", "Brk", "Bvc", "Bvs",
     "Clc", "Cld", "Cli", "Clv", "Cmp", "Cpx", "Cpy", "Dec", "Dex", "Dey", "Eor", "Inc",
     "Inx", "Iny", "Sbc", "Sec", "Sed", "Sei", "Sta", "Stx", "Sty", "Tax", "Tay", "Tsx",
     "Txa", "Txs", "Tya"}

\* an undecodable byte skipped without a word
invalid_opcode_skips(c) == c

\* Cpu::invalid_opcode: report holds the values formatted into the panic message
\* (the opcode byte, original_pc, sp, a, x, y, status)
invalid_opcode(c) ==
    Bind(SubWord(c, c.pc, 1), LAMBDA o :
        Bind(Read(o, o.ret), LAMBDA r :
            Panic([r EXCEPT !.report = <<r.ret, o.ret, r.sp, r.a, r.x, r.y, r.status>>],
                  "Invalid opcode")))

\* the match on instruction.opcode in execute_next_instruction
Dispatch(c, opcode, m) ==
    CASE opcode = "Adc" -> execute_adc(c, m)
      [] opcode = "Jmp" -> execute_jmp(c, m)
      [] opcode = "Jsr" -> execute_jsr(c, m)
      [] opcode = "Lda" -> execute_lda(c, m)
      [] opcode = "Ldx" -> execute_ldx(c, m)
      [] opcode = "Ldy" -> execute_ldy(c, m)
      [] opcode = "Lsr" -> execute_lsr(c, m)
      [] opcode = "Nop" -> c
      [] opcode = "Ora" -> execute_ora(c, m)
      [] opcode = "Pha" -> execute_pha(c, m)
      [] opcode = "Php" -> execute_php(c, m)
      [] opcode = "Pla" -> execute_pla(c, m)
      [] opcode = "Plp" -> execute_plp(c, m)
      [] opcode = "Rol" -> execute_rol(c, m)
      [] opcode = "Ror" -> execute_ror(c, m)
      [] opcode = "Rti" -> execute_rti(c, m)
      [] opcode = "Rts" -> execute_rts(c, m)
      [] opcode \in TodoOpcodes -> Todo(c)

\* the trace line printed after the handler returns, compiled only with debug
\* assertions: it evaluates self.pc - 1
DebugTraceLine(c) ==
    IF Alive(c) /\ debug_assertions
    THEN With(SubWord(c, c.pc, 1), LAMBDA s : IF Alive(s) THEN c ELSE s)
    ELSE c

\* Cpu::execute_next_instruction
execute_next_instruction(c) ==
    Bind(fetch_and_advance_pc(c), LAMBDA f :
        With([f EXCEPT !.opcode = f.ret, !.instruction = TryFrom(f.ret)], LAMBDA d :
            IF ~d.instruction.ok THEN invalid_opcode(d)
            ELSE With(Dispatch(d, d.instruction.opcode, d.instruction.addressing_mode),
                      LAMBDA h : DebugTraceLine(h))))

---------------------------------------------------------------------------
(* Bounds of the model *)

\* the largest instruction_limit a bounded call of run is given
MaxLimit == 6
\* the most calls of run the caller makes on one Cpu (main.rs makes two)
MaxRuns == 2
\* the most bytes a program pushes before the sequence under study starts
MaxPrefix == 2

---------------------------------------------------------------------------
(* Program images.  As run_code (lib.rs) and main (main.rs) do, a program  *)
(* is a sequence of bytes stored from CODE_START on in a zeroed Memory.    *)

\* the loop `mem[CODE_START as usize + i] = b` of run_code and main
Load(code) ==
    [k \in {CODE_START + n - 1 : n \in {j \in 1 .. Len(code) : code[j] # 0}}
        |-> code[k - CODE_START + 1]]

Lo(word) == word % ByteModulus
Hi(word) == word \div ByteModulus

RECURSIVE Repeat(_, _)
Repeat(code, n) == IF n = 0 THEN <<>> ELSE code \o Repeat(code, n - 1)

\* byte values at and around every boundary the handlers test
SampleBytes == {0, 1, 2, 15, 16, 17, 64, 127, 128, 129, 200, 254, 255}

\* operand byte pairs for a single instruction
SampleOperands == {<<0, 0>>, <<1, 0>>, <<16, 0>>, <<15, 0>>, <<255, 0>>, <<0, 192>>,
                   <<255, 255>>, <<254, 255>>, <<128, 1>>, <<255, 1>>}

\* one instruction: every opcode byte, with sample operand bytes
SingleOpPrograms == {<<b, o[1], o[2]>> : b \in Byte, o \in SampleOperands}

\* the programs of the tests of lib.rs, for every immediate value
LoadPrograms == {<<op, v>> : op \in {169, 162, 160}, v \in Byte}

\* LDA #a; ADC #b, every byte in one position against the samples in the other
AdcPrograms ==
    {<<169, p[1], 105, p[2]>> : p \in (Byte \X SampleBytes) \cup (SampleBytes \X Byte)}

\* LDA #f; PHA; PLP (status := f); LDA #a; ADC #b
AdcStatusPrograms ==
    {<<169, f, 72, 40, 169, p[1], 105, p[2]>> :
        f \in {DecimalMode, Carry, Carry + DecimalMode, AllFlags},
        p \in SampleBytes \X SampleBytes}

\* n pushes, then LDA #b1; PHA; LDA #b2; PHA; PLA; PLA
StackPrograms ==
    {Repeat(<<72>>, n) \o <<169, p[1], 72, 169, p[2], 72, 104, 104>> :
        n \in 0 .. MaxPrefix, p \in SampleBytes \X SampleBytes}

\* start: LDA #b1; PHA; LDA #b2; PHA; PLA; PLA; PHA; JMP start: the same pushes
\* and pops from every stack pointer, one byte lower each time round
RoundTripLoops ==
    {<<169, p[1], 72, 169, p[2], 72, 104, 104, 72, 76, Lo(CODE_START), Hi(CODE_START)>> :
        p \in {<<127, 200>>, <<0, 255>>}}

\* programs that run until the stack is exhausted, or pop more than was pushed
ExhaustPrograms ==
    { <<72, 76, Lo(CODE_START), Hi(CODE_START)>>,          \* PHA; JMP start
      <<8, 76, Lo(CODE_START), Hi(CODE_START)>>,           \* PHP; JMP start
      <<32, Lo(CODE_START), Hi(CODE_START)>>,              \* JSR start
      <<72, 32, Lo(CODE_START + 1), Hi(CODE_START + 1)>>,  \* PHA; JSR to the JSR
      <<72, 96>>,                                          \* PHA; RTS
      <<72, 64>>,                                          \* PHA; RTI
      <<72, 72, 64>>,                                      \* PHA; PHA; RTI
      <<72, 104, 104>>,                                    \* PHA; PLA; PLA
      <<8, 40, 40>> }                                      \* PHP; PLP; PLP

\* the program of main.rs: LDA #0x11; LDX #0x20; LDY #0x40; LSR A
MainProgram == <<169, 17, 162, 32, 160, 64, 74>>

\* LDA #0x01; JSR sub; JMP after; sub: LDX #0x02; RTS; after: LDY #0x03
CallProgram ==
    <<169, 1, 32, Lo(CODE_START + 8), Hi(CODE_START + 8),
      76, Lo(CODE_START + 11), Hi(CODE_START + 11), 162, 2, 96, 160, 3>>

\* n one-byte instructions (pushes or NOPs), then JSR sub; NOP; sub: a body; RTS
CallProgramsAt(n) ==
    {Repeat(<<pre>>, n) \o <<32, Lo(CODE_START + n + 4), Hi(CODE_START + n + 4), 234>>
        \o body \o <<96>> :
        pre \in {72, 234},
        body \in {<<>>, <<72, 104>>, <<8, 40>>, <<169, 128, 72, 162, 0, 104>>,
                  <<32, Lo(CODE_START + n + 8), Hi(CODE_START + n + 8), 234, 96>>,
                  <<104>>, <<72>>, <<78, 255, 1>>, <<78, 254, 1>>}}

CallPrograms == UNION {CallProgramsAt(n) : n \in 0 .. MaxPrefix}

\* LDA #a; ADC #b for every pair of bytes
AdcAllPrograms == {<<169, p[1], 105, p[2]>> : p \in Byte \X Byte}

\* LDA #b1; PHA; LDA #b2; PHA; PLA; PLA for every pair of bytes
StackAllPrograms == {<<169, p[1], 72, 169, p[2], 72, 104, 104>> : p \in Byte \X Byte}

\* LDA #f; PHA; PLP (status := f); LDA #a; then LSR A, ROL A or ROR A
ShiftAccPrograms ==
    {<<169, f, 72, 40, 169, acc, op>> :
        f \in {StatusEmpty, Carry, AllFlags - Carry, AllFlags}, acc \in Byte,
        op \in {74, 42, 106}}

\* LDA #acc; LDX #xv; a shift or rotate of the byte d at CODE_START + 8, addressed
\* absolutely or from a base xv below it; NOP; d
ShiftAbsolutePrograms ==
    {<<169, acc, 162, xv, op[1], Lo(CODE_START + 8 - op[2] * xv),
       Hi(CODE_START + 8 - op[2] * xv), 234, d>> :
        acc \in {0, 1, 255}, xv \in {0, 3}, d \in SampleBytes,
        op \in {<<78, 0>>, <<46, 0>>, <<110, 0>>, <<94, 1>>, <<62, 1>>, <<126, 1>>}}

\* LDA #1; LSR A (Carry := 1, A := 0); LDX #xv; ROR $10 or ROR $10,X; then a shift
\* or rotate of the same zero-page byte, addressed $10 or $10,X
ShiftZeroPagePrograms ==
    {<<169, 1, 74, 162, xv, first, 16, second, 16>> :
        xv \in {0, 3, 255}, first \in {102, 118},
        second \in {70, 86, 38, 54, 102, 118}}

\* n NOPs
Nops(n) == [k \in 1 .. n |-> 234]

\* programs that store into the bytes of their own next instruction:
\* LSR or ROL of the opcode byte that follows, LSR or ROR of the operand byte of
\* the LDX # that follows, and JSR into the stack page, onto the return address
\* it has just pushed (0xC04A: LSR A, CPY #; 0xC0A9: LDA #0xC0)
SelfModifyingPrograms ==
    {<<op, Lo(CODE_START + 3), Hi(CODE_START + 3), d>> : op \in {78, 46}, d \in Byte}
        \cup {<<169, 1, 74, op, Lo(CODE_START + 7), Hi(CODE_START + 7), 162, d>> :
                 op \in {78, 110}, d \in SampleBytes}
        \cup {Nops(n) \o <<32, 254, 1>> : n \in {72, 167}}

\* LDA #f; PHA; PLP (status := f); PHP; PLA (A := the status byte PHP pushed)
StatusPrograms == {<<169, f, 72, 40, 8, 104>> : f \in Byte}

\* LDA #high; PHA; LDA #low; PHA; LDA #flags; PHA; RTI
RtiPrograms ==
    {<<169, high, 72, 169, low, 72, 169, flags, 72, 64>> :
        high \in {0, 192, 255}, low \in {0, 10, 255}, flags \in {0, 32, 195, 255}}

\* LDA #high; PHA; LDA #low; PHA; RTS, returning to 0xFFFF + 1 and to 0x00FF + 1
WrapPrograms == {<<169, high, 72, 169, 255, 72, 96>> : high \in {0, 255}}

\* JMP (ptr) with the pointer stored right after it, and JMP ($C0FF) with the
\* pointer stored across the page boundary 0xC0FF / 0xC100
IndirectPrograms ==
    {<<108, Lo(CODE_START + 3), Hi(CODE_START + 3), w[1], w[2]>> : w \in SampleOperands}
        \cup {<<108, 255, Hi(CODE_START)>> \o Nops(252) \o <<w[1], w[2]>> :
                 w \in {<<1, 192>>, <<52, 18>>}}

\* LDA #1; LSR A (Carry := 1); ROL target (the byte at target := 1); LDX #xv;
\* LDY #yv; then a load through page zero: LDA (zp,X) or LDA (zp),Y with the
\* byte at 0x0100 set, LDA zp,X or LDX zp,Y with the byte at 0x0002 set
ZeroPagePrograms ==
    {<<169, 1, 74, 46, 0, 1, 162, xv, 160, yv, op, zp>> :
        op \in {161, 177}, zp \in {254, 255}, xv \in {0, 1}, yv \in {0, 1}}
        \cup {<<169, 1, 74, 46, 2, 0, 162, xv, 160, yv, op, zp>> :
                 op \in {181, 182}, zp \in {1, 255}, xv \in {1, 3}, yv \in {1, 3}}

\* LDA #0xAB followed by 256 PHA
PushProgram == <<169, 171>> \o [k \in 1 .. 256 |-> 72]

\* the programs run under every bounded plan
CorePrograms ==
    {MainProgram, CallProgram, <<169, 17>>, <<234, 2>>, <<72, 104, 104>>,
     <<72, 76, Lo(CODE_START), Hi(CODE_START)>>}

\* the programs run to their end by one unbounded call of run
AllPrograms ==
    SingleOpPrograms \cup LoadPrograms \cup AdcPrograms \cup AdcStatusPrograms
        \cup ShiftAccPrograms \cup ShiftAbsolutePrograms \cup ShiftZeroPagePrograms
        \cup SelfModifyingPrograms \cup StatusPrograms \cup RtiPrograms
        \cup WrapPrograms \cup IndirectPrograms \cup ZeroPagePrograms
        \cup {PushProgram}
        \cup StackPrograms \cup RoundTripLoops \cup ExhaustPrograms \cup CallPrograms \cup CorePrograms

\* the caller's plans: up to MaxRuns calls run(Some(n)), n <= MaxLimit
BoundedPlans ==
    UNION {[1 .. k -> {Some(n) : n \in 0 .. MaxLimit}] : k \in 1 .. MaxRuns}

Scenarios ==
    [code : CorePrograms, plan : BoundedPlans]
        \cup [code : AllPrograms, plan : {<<None>>}]

---------------------------------------------------------------------------
(* The bytes pushed and not yet popped, kept beside the Cpu to state the   *)
(* stack claims: each entry is what one successful push wrote, where, and  *)
(* by which instruction (its mnemonic, its address, sp and pc before it).  *)

RECURSIVE ShadowAfter(_, _, _)
ShadowAfter(s, trace, origin) ==
    IF trace = <<>> THEN s
    ELSE LET e == Head(trace)
             t == CASE e.op = "push" /\ e.done ->
                         Append(s, [value |-> e.value, address |-> e.address,
                                    origin |-> origin])
                    [] e.op = "pop" /\ s # <<>> -> SubSeq(s, 1, Len(s) - 1)
                    [] OTHER -> s
         IN ShadowAfter(t, Tail(trace), origin)

---------------------------------------------------------------------------
(* The state machine *)

\* no call of Memory::write or Memory::read has been made directly
NoAccess == [op |-> "none", address |-> 0, data |-> 0, written |-> 0, value |-> 0]

NoInstruction ==
    [address |-> -1, byte |-> -1, instruction |-> DecodeError, trace |-> <<>>,
     report |-> <<>>]

InitFrom(scenarios) ==
    /\ \E s \in scenarios :
         /\ image = Load(s.code)
         /\ plan = s.plan
    /\ debug_assertions \in BOOLEAN
    /\ LET c == CpuNew(image)
       IN /\ memory = c.memory
          /\ pc = c.pc
          /\ sp = c.sp
          /\ a = c.a
          /\ x = c.x
          /\ y = c.y
          /\ status = c.status
    /\ panic = NoPanic
    /\ running = FALSE
    /\ limit = None
    /\ i = 0
    /\ runs = 0
    /\ last = NoInstruction
    /\ shadow = <<>>
    /\ calls = <<>>
    /\ access = NoAccess

Init == InitFrom(Scenarios)

\* a loop that runs once more than asked
LoopContinuesInclusive(instruction_limit, done) ==
    IF instruction_limit = None THEN TRUE ELSE done <= instruction_limit[1]

\* the condition of run's loop: `for _ in 0..limit`, or `loop`
LoopContinues(instruction_limit, done) ==
    IF instruction_limit = None THEN TRUE ELSE done < instruction_limit[1]

\* a call of run that starts the program again from CODE_START
RunStartResetsPc ==
    /\ ~running
    /\ panic = NoPanic
    /\ plan # <<>>
    /\ running' = TRUE
    /\ limit' = Head(plan)
    /\ plan' = Tail(plan)
    /\ i' = 0
    /\ calls' = Append(calls, Head(plan))
    /\ pc' = CODE_START
    /\ UNCHANGED <<image, debug_assertions, memory, sp, a, x, y, status, panic, runs, last,
                   shadow, access>>

\* the caller calls cpu.run(instruction_limit)
RunStart ==
    /\ ~running
    /\ panic = NoPanic
    /\ plan # <<>>
    /\ running' = TRUE
    /\ limit' = Head(plan)
    /\ plan' = Tail(plan)
    /\ i' = 0
    /\ calls' = Append(calls, Head(plan))
    /\ UNCHANGED <<image, debug_assertions, cpuVars, panic, runs, last, shadow, access>>

\* the Cpu as execute_next_instruction finds it
CpuNow ==
    [memory |-> memory, pc |-> pc, sp |-> sp, a |-> a, x |-> x, y |-> y,
     status |-> status, panic |-> NoPanic, ret |-> 0, opcode |-> -1,
     instruction |-> DecodeError, trace |-> <<>>, report |-> <<>>]

\* the Cpu as execute_next_instruction leaves it
Commit(c) ==
    /\ memory' = c.memory
    /\ pc' = c.pc
    /\ sp' = c.sp
    /\ a' = c.a
    /\ x' = c.x
    /\ y' = c.y
    /\ status' = c.status
    /\ panic' = c.panic
    /\ i' = IF Alive(c) /\ limit # None THEN i + 1 ELSE i
    /\ last' = [address |-> pc, byte |-> c.opcode, instruction |-> c.instruction,
                trace |-> c.trace, report |-> c.report]
    /\ shadow' = ShadowAfter(shadow, c.trace,
                             [opcode |-> c.instruction.opcode, address |-> pc, sp |-> sp])

\* one iteration of run's loop: self.execute_next_instruction()
Step ==
    /\ running
    /\ panic = NoPanic
    /\ LoopContinues(limit, i)
    /\ \E c \in {execute_next_instruction(CpuNow)} : Commit(c)
    /\ UNCHANGED <<image, plan, debug_assertions, running, limit, runs, calls, access>>

\* run's loop ends and run returns to the caller
RunReturn ==
    /\ running
    /\ panic = NoPanic
    /\ ~LoopContinues(limit, i)
    /\ running' = FALSE
    /\ runs' = runs + 1
    /\ UNCHANGED <<image, plan, debug_assertions, cpuVars, panic, limit, i, last, shadow,
                   calls, access>>

Next == RunStart \/ Step \/ RunReturn

Spec == Init /\ [][Next]_vars

\* the Cpus whose caller makes bounded calls of run only
BoundedInit == Init /\ None \notin {plan[k] : k \in DOMAIN plan}

\* the Cpus that add: every pair of bytes run for its two instructions as
\* run_code does, and the additions that start with flags set for their five
AdcScenarios ==
    [code : AdcAllPrograms, plan : {<<Some(2)>>}]
        \cup [code : AdcStatusPrograms, plan : {<<Some(5)>>}]

AdcSpec == InitFrom(AdcScenarios) /\ [][Next]_vars

\* the Cpus that use the stack: every pair of bytes pushed and popped in six
\* instructions, and the programs that push, pop, call and return until they stop
StackScenarios ==
    [code : StackAllPrograms, plan : {<<Some(6)>>}]
        \cup [code : StackPrograms \cup RoundTripLoops \cup ExhaustPrograms \cup CallPrograms,
               plan : {<<None>>}]

StackSpec == InitFrom(StackScenarios) /\ [][Next]_vars

---------------------------------------------------------------------------
(* The Memory by itself: a client of mem.rs constructs a Memory, stores one *)
(* byte with write and then loads a byte with read.                        *)

\* the bytes a client stores
ProbeBytes == {1, 128, 255}

\* the addresses a client reads after a write to address: the same address, its
\* neighbours, and the two ends of the address space
ProbeAddresses(address) ==
    {address, (address + 1) % WordModulus, (address + WordModulus - 1) % WordModulus,
     0, WordModulus - 1}

\* memory.write(address, data) on the new Memory
MemoryWriteCall ==
    /\ access = NoAccess
    /\ panic = NoPanic
    /\ \E address \in Word, data \in ProbeBytes :
         \E r \in {MemoryWrite(memory, address, data)} :
            /\ memory' = r.memory
            /\ panic' = r.panic
            /\ access' = [op |-> "write", address |-> address, data |-> data,
                          written |-> address, value |-> 0]
    /\ UNCHANGED <<image, plan, debug_assertions, pc, sp, a, x, y, status, running,
                   limit, i, runs, last, shadow, calls>>

\* memory.read(address) after the write
MemoryReadCall ==
    /\ access.op = "write"
    /\ panic = NoPanic
    /\ \E address \in ProbeAddresses(access.written) :
         \E r \in {MemoryRead(memory, address)} :
            /\ panic' = r.panic
            /\ access' = [access EXCEPT !.op = "read", !.address = address,
                                        !.value = r.value]
    /\ UNCHANGED <<image, plan, debug_assertions, cpuVars, running, limit, i, runs, last,
                   shadow, calls>>

MemoryNext == MemoryWriteCall \/ MemoryReadCall

\* Memory::new(), and no Cpu run on it
MemorySpec == InitFrom({[code |-> <<>>, plan |-> <<>>]}) /\ [][MemoryNext]_vars

\* run is synchronous code: a loop that can go on does, and a finished loop returns
FairSpec == BoundedInit /\ [][Next]_vars /\ WF_vars(Step) /\ WF_vars(RunReturn)

---------------------------------------------------------------------------
(* Vocabulary of the properties *)

\* the transition is one call of execute_next_instruction
StepTaken == running /\ running' /\ panic = NoPanic /\ last'.address = pc

\* the mnemonic the instruction just executed was decoded to
Executed(state) == state.instruction.opcode

HasFlag(bits, flag) == (bits \div flag) % 2 = 1

RECURSIVE CountOp(_, _)
CountOp(trace, op) ==
    IF trace = <<>> THEN 0
    ELSE (IF Head(trace).op = op THEN 1 ELSE 0) + CountOp(Tail(trace), op)

---------------------------------------------------------------------------
(* C1 *)

---------------------------------------------------------------------------
(* C2 *)

\* C2: a call run(Some(n)) never executes more than n instructions; when it
\* returns it has executed exactly n; when a panic ends it, fewer than n
\* instructions had completed (the panic came in step k = i + 1 <= n, after
\* k - 1 completed instructions) and nothing executes afterwards; and every
\* bounded call ends, by returning or by a panic.
C2_BoundedRun ==
    /\ [](limit # None => i <= limit[1])
    /\ []((limit # None /\ ~running /\ runs > 0 /\ panic = NoPanic) => i = limit[1])
    /\ []((limit # None /\ panic # NoPanic) => i < limit[1])
    /\ [][panic # NoPanic => UNCHANGED vars]_vars
    /\ [][(running /\ ~running') => (limit # None /\ i = limit[1] /\ UNCHANGED cpuVars)]_vars
    /\ ((running /\ limit # None) ~> (~running \/ panic # NoPanic))

\* run(Some(3)) has returned after three instructions
C2_Witness == ~running /\ runs = 1 /\ limit = Some(3) /\ i = 3 /\ panic = NoPanic

---------------------------------------------------------------------------
(* C3 *)

\* C3: the only panics that end a run are the undecodable opcode and the
\* exhausted stack: every byte the decoder accepts reaches a handler that
\* executes to completion unless it exhausts the stack.
C3_OnlyDecodeAndStackHalts ==
    panic \in {NoPanic, "Invalid opcode", "stack overflow", "stack underflow"}

---------------------------------------------------------------------------
(* C4 *)

\* C4: when the byte fetched as an opcode has no assigned instruction the
\* run panics with "Invalid opcode" and nothing is fetched or executed after
\* it; at the halt A, X, Y, sp, the status and all of memory are what they were
\* before the fetch, pc has advanced by one, and the report names the byte, the
\* address pc - 1 and those register values.
C4_InvalidOpcodeHalts ==
    /\ [][(StepTaken /\ last'.byte >= 0 /\ ~last'.instruction.ok) =>
             /\ panic' = "Invalid opcode"
             /\ a' = a /\ x' = x /\ y' = y /\ sp' = sp /\ status' = status
             /\ memory' = memory
             /\ pc' = pc + 1
             /\ last'.report = <<Peek(memory, pc), pc' - 1, sp, a, x, y, status>>]_vars
    /\ [][(StepTaken /\ panic' = "Invalid opcode") => ~last'.instruction.ok]_vars
    /\ [][panic = "Invalid opcode" => UNCHANGED vars]_vars

\* LDA #0xFF followed by the unassigned byte 0xFF
C4_Witness ==
    /\ panic = "Invalid opcode"
    /\ last.byte = 255
    /\ a = 255
    /\ pc = CODE_START + 3

---------------------------------------------------------------------------
(* C5 *)

\* the pushes and pops an instruction makes when the stack allows them
PushesOf(opcode) ==
    CASE opcode \in {"Pha", "Php"} -> 1 [] opcode = "Jsr" -> 2 [] OTHER -> 0

PopsOf(opcode) ==
    CASE opcode \in {"Pla", "Plp"} -> 1 [] opcode = "Rts" -> 2 [] opcode = "Rti" -> 3
      [] OTHER -> 0

\* C5: a push (PHA, PHP, either byte of JSR) panics iff sp is 0x00 when that
\* push starts, a pop (PLA, PLP, any byte of RTS or RTI) panics iff sp is 0xFF
\* when that pop starts, and sp never wraps: it moves down by the pushes that
\* succeeded and up by the pops that succeeded.
C5_StackExhaustion ==
    [][StepTaken =>
        LET started == CountOp(last'.trace, "push")
            popped == CountOp(last'.trace, "pop")
            wanted == PopsOf(Executed(last'))
        IN /\ \A k \in 1 .. started :
                 (k = started /\ panic' = "stack overflow") <=> (sp - (k - 1) = 0)
           /\ panic' = "stack overflow" => started > 0
           /\ started > 0 =>
                 sp' = sp - (IF panic' = "stack overflow" THEN started - 1 ELSE started)
           /\ \A k \in 1 .. wanted :
                 (k = popped + 1 /\ panic' = "stack underflow") <=>
                     (k <= popped + 1 /\ sp + (k - 1) = 255)
           /\ panic' = "stack underflow" => wanted > 0
           /\ wanted > 0 => sp' = sp + popped
           /\ (started = 0 /\ wanted = 0) => sp' = sp
           /\ started > 0 =>
                 (started = PushesOf(Executed(last')) \/ panic' = "stack overflow")
    ]_vars

\* the 256th push of `PHA; JMP start` has panicked at sp = 0
C5_Witness ==
    /\ panic = "stack overflow"
    /\ sp = 0
    /\ Len(shadow) = 255
    /\ Executed(last) = "Pha"


---------------------------------------------------------------------------
(* C6 *)

\* the pushed byte k places from the top of the stack
Below(k) == shadow[Len(shadow) - k + 1]

\* the byte is still in memory where its push wrote it
Intact(entry) == Peek(memory, entry.address) = entry.value

\* the pops, or the stores other than pushes, that an instruction made, in order
EventsOf(trace, op) == SelectSeq(trace, LAMBDA e : e.op = op)

\* C6: pops return the pushed bytes last-in first-out (after PHA b1, PHA b2 the
\* two PLA load b2 then b1 into A), a PHA pushes A and leaves it alone, a pushed
\* byte stays as pushed until an instruction stores to its address, and sp is
\* always 0xFF minus the number of bytes pushed and not yet popped, so that a
\* balanced sequence of pushes and pops ends with the sp it started with.
C6_StackRoundTrip ==
    /\ [](sp = 255 - Len(shadow))
    /\ [][StepTaken =>
            LET pops == EventsOf(last'.trace, "pop")
                stores == EventsOf(last'.trace, "write")
            IN /\ Len(pops) <= Len(shadow)
               /\ \A k \in 1 .. Len(pops) :
                     /\ pops[k].address = Below(k).address
                     /\ Intact(Below(k)) => pops[k].value = Below(k).value
               /\ (Executed(last') = "Pla" /\ Len(pops) = 1 /\ Intact(Below(1))) =>
                     (a' = Below(1).value /\ sp' = sp + 1 /\ panic' = NoPanic)
               /\ (Executed(last') = "Pha" /\ sp > 0) =>
                     /\ panic' = NoPanic
                     /\ Len(shadow') = Len(shadow) + 1
                     /\ shadow'[Len(shadow')].value = a
                     /\ shadow'[Len(shadow')].address = 256 + sp
                     /\ Peek(memory', 256 + sp) = a
                     /\ a' = a
                     /\ sp' = sp - 1
               /\ \A k \in 1 .. Len(shadow) :
                     (/\ Intact(shadow[k])
                      /\ \A n \in 1 .. Len(stores) : stores[n].address # shadow[k].address)
                         => Peek(memory', shadow[k].address) = shadow[k].value
         ]_vars

\* PHA; PHA; LDA #0x7F; PHA; LDA #0xC8; PHA; PLA; PLA has run: the second PLA
\* has loaded 0x7F, the byte pushed first, and sp is where the pair started
C6_Witness ==
    /\ image = Load(<<72, 72, 169, 127, 72, 169, 200, 72, 104, 104>>)
    /\ last.address = CODE_START + 9
    /\ Executed(last) = "Pla"
    /\ panic = NoPanic
    /\ a = 127
    /\ sp = 253

---------------------------------------------------------------------------
(* C7 *)

\* the order in which the call-and-return program executes its instructions
CallOrder == <<"Lda", "Jsr", "Ldx", "Rts", "Jmp", "Ldy">>

\* C7: an RTS that finds on top of the stack the two bytes one JSR saved,
\* untouched, continues at that JSR's address plus 3 with the sp the JSR started
\* with; JSR and RTS change none of A, X, Y and the status; and the program
\* LDA #1; JSR sub; JMP after; sub: LDX #2; RTS; after: LDY #3 executes LDA, JSR,
\* LDX, RTS, JMP, LDY in that order and ends with X = 2 and Y = 3.
C7_CallReturn ==
    /\ [][(/\ StepTaken
           /\ Executed(last') = "Rts"
           /\ Len(shadow) >= 2
           /\ Below(1).origin.opcode = "Jsr"
           /\ Below(2).origin = Below(1).origin
           /\ Intact(Below(1))
           /\ Intact(Below(2)))
          => /\ panic' = NoPanic
             /\ pc' = Below(1).origin.address + 3
             /\ sp' = Below(1).origin.sp]_vars
    /\ [][(StepTaken /\ Executed(last') \in {"Jsr", "Rts"}) =>
             (a' = a /\ x' = x /\ y' = y /\ status' = status)]_vars
    /\ []((image = Load(CallProgram) /\ limit = Some(6) /\ runs = 0) =>
             /\ panic = NoPanic
             /\ i >= 1 => Executed(last) = CallOrder[i]
             /\ i = 6 => (a = 1 /\ x = 2 /\ y = 3 /\ sp = 255))

\* run(Some(6)) of the call-and-return program has returned
C7_Witness ==
    /\ image = Load(CallProgram)
    /\ limit = Some(6)
    /\ runs = 1
    /\ ~running
    /\ i = 6
    /\ Executed(last) = "Ldy"
    /\ x = 2
    /\ y = 3
    /\ pc = CODE_START + 13

---------------------------------------------------------------------------
(* C8 *)

\* the loads, transfers, logical and arithmetic operations
FlagSetters ==
    {"Lda", "Ldx", "Ldy", "Tax", "Tay", "Txa", "Tya", "Tsx", "And", "Ora", "Eor",
     "Adc", "Sbc"}

\* C8: a load, transfer, logical or arithmetic instruction whose operand can be
\* read completes, and leaves Zero set iff the value in its destination register
\* is 0 and Negative set iff bit 7 of that value is 1.
C8_ZeroNegativeFlags ==
    [][(/\ StepTaken
        /\ Executed(last') \in FlagSetters
        /\ panic' \in {NoPanic, "not yet implemented"})
       => LET v == CASE Executed(last') \in {"Ldx", "Tax", "Tsx"} -> x'
                     [] Executed(last') \in {"Ldy", "Tay"} -> y'
                     [] OTHER -> a'
          IN /\ panic' = NoPanic
             /\ HasFlag(status', Zero) <=> (v = 0)
             /\ HasFlag(status', Negative) <=> (v >= 128)]_vars

---------------------------------------------------------------------------
(* C9 *)

\* C9: ADC #b with A = a leaves A = (a + b) mod 256, Carry = (a + b >= 256),
\* Overflow = ((a XOR result) AND (b XOR result) AND 0x80) # 0, Zero and
\* Negative from the result, and every other flag, X, Y, sp and memory as they
\* were, whatever Carry and DecimalMode were before.
C9_AdcImmediate ==
    [][(StepTaken /\ last'.byte = 105 /\ pc + 1 < MAX_MEMORY /\ pc + 1 # STDOUT_PORT) =>
          LET b == Peek(memory, pc + 1)
              result == (a + b) % 256
          IN /\ panic' = NoPanic
             /\ a' = result
             /\ HasFlag(status', Carry) <=> (a + b >= 256)
             /\ HasFlag(status', Overflow) <=>
                   (BitAnd(BitAnd(BitXor(a, result), BitXor(b, result)), 128) # 0)
             /\ HasFlag(status', Zero) <=> (result = 0)
             /\ HasFlag(status', Negative) <=> (result >= 128)
             /\ \A flag \in {InterruptDisable, DecimalMode, Break, Unused} :
                   HasFlag(status', flag) <=> HasFlag(status, flag)
             /\ pc' = pc + 2
             /\ x' = x /\ y' = y /\ sp' = sp /\ memory' = memory]_vars

\* with Carry and DecimalMode set, 0x80 + 0x80 has left A = 0, Carry, Overflow
\* and Zero set and DecimalMode as it was
C9_Witness ==
    /\ image = Load(<<169, 9, 72, 40, 169, 128, 105, 128>>)
    /\ last.byte = 105
    /\ panic = NoPanic
    /\ a = 0
    /\ HasFlag(status, Carry)
    /\ HasFlag(status, Overflow)
    /\ HasFlag(status, Zero)
    /\ ~HasFlag(status, Negative)
    /\ HasFlag(status, DecimalMode)

---------------------------------------------------------------------------
(* C10 *)

\* The published table of the 6502's legal encodings, by the layout of the
\* opcode byte aaabbbcc: cc selects a group of operations, aaa the operation,
\* bbb the addressing mode; the one-byte instructions, the branches and the
\* calls and returns are listed.
Group01 == <<"Ora", "And", "Eor", "Adc", "Sta", "Lda", "Cmp", "Sbc">>
Modes01 ==
    <<"IndexedIndirect", "ZeroPage", "Immediate", "Absolute", "IndirectIndexed",
      "ZeroPageX", "AbsoluteY", "AbsoluteX">>
Group10 == <<"Asl", "Rol", "Lsr", "Ror", "Stx", "Ldx", "Dec", "Inc">>
Modes10 ==
    <<"Immediate", "ZeroPage", "Accumulator", "Absolute", "none", "ZeroPageX", "none",
      "AbsoluteX">>
Group00 == <<"none", "Bit", "Jmp", "Jmp", "Sty", "Ldy", "Cpy", "Cpx">>
Modes00 ==
    <<"Immediate", "ZeroPage", "none", "Absolute", "none", "ZeroPageX", "none",
      "AbsoluteX">>
Branches == <<"Bpl", "Bmi", "Bvc", "Bvs", "Bcc", "Bcs", "Bne", "Beq">>
Column8 == <<"Php", "Clc", "Plp", "Sec", "Pha", "Cli", "Pla", "Sei", "Dey", "Tya", "Tay",
             "Clv", "Iny", "Cld", "Inx", "Sed">>
ColumnA == <<"Txa", "Txs", "Tax", "Tsx", "Dex", "none", "Nop", "none">>

Published(byte) ==
    LET aaa == byte \div 32
        bbb == (byte \div 4) % 8
        cc == byte % 4
        op01 == Group01[aaa + 1]
        op10 == Group10[aaa + 1]
        op00 == Group00[aaa + 1]
        indexY == op10 \in {"Stx", "Ldx"}
        mode10 == CASE bbb = 5 /\ indexY -> "ZeroPageY"
                    [] bbb = 7 /\ indexY -> "AbsoluteY"
                    [] OTHER -> Modes10[bbb + 1]
    IN CASE byte = 0 -> Ok("Brk", "Implicit")
         [] byte = 32 -> Ok("Jsr", "Absolute")
         [] byte = 64 -> Ok("Rti", "Implicit")
         [] byte = 96 -> Ok("Rts", "Implicit")
         [] byte = 108 -> Ok("Jmp", "Indirect")
         [] byte % 32 = 16 -> Ok(Branches[aaa + 1], "Relative")
         [] byte % 16 = 8 -> Ok(Column8[byte \div 16 + 1], "Implicit")
         [] byte % 16 = 10 /\ byte >= 128 ->
               IF ColumnA[byte \div 16 - 7] = "none" THEN DecodeError
               ELSE Ok(ColumnA[byte \div 16 - 7], "Implicit")
         [] cc = 1 ->
               IF byte = 137 THEN DecodeError ELSE Ok(op01, Modes01[bbb + 1])
         [] cc = 2 ->
               IF \/ mode10 = "none"
                  \/ (bbb = 0 /\ op10 # "Ldx")
                  \/ (bbb = 2 /\ aaa >= 4)
                  \/ (bbb = 7 /\ op10 = "Stx")
               THEN DecodeError ELSE Ok(op10, mode10)
         [] cc = 0 ->
               IF \/ op00 = "none"
                  \/ Modes00[bbb + 1] = "none"
                  \/ (bbb = 0 /\ aaa < 5)
                  \/ (bbb = 1 /\ aaa \in {2, 3})
                  \/ (bbb = 5 /\ aaa \notin {4, 5})
                  \/ (bbb = 7 /\ aaa # 5)
               THEN DecodeError ELSE Ok(op00, Modes00[bbb + 1])
         [] OTHER -> DecodeError

\* the decoder and the published table agree on every byte
DecoderAgrees == \A byte \in Byte : TryFrom(byte) = Published(byte)

\* the bytes the decoder accepts, and those it rejects
Accepted == {byte \in Byte : TryFrom(byte).ok}
Rejected == {byte \in Byte : TryFrom(byte) = DecodeError}

\* C10: try_from gives every byte 0x00..0xFF exactly the (Opcode,
\* AddressingMode) pair the published table gives it, or a decode failure where
\* the table has no instruction: 151 bytes decode, the other 105 fail, and every
\* opcode byte the Cpu fetches is decoded so.
C10_DecoderExact ==
    /\ DecoderAgrees
    /\ Cardinality(Accepted) = 151
    /\ Cardinality(Rejected) = 105
    /\ last.byte >= 0 =>
          /\ last.instruction = TryFrom(last.byte)
          /\ last.instruction = Published(last.byte)

\* 0x96 has been fetched and decoded as STX zero page,Y, and 0x89 has no
\* instruction
C10_Witness ==
    /\ last.byte = 150
    /\ last.instruction = Ok("Stx", "ZeroPageY")
    /\ Published(137) = DecodeError

---------------------------------------------------------------------------
(* C11 *)

\* the status byte that holds Zero and Negative of a value and nothing else
ZeroNegativeOnly(value) ==
    (IF value = 0 THEN 2 ELSE 0) + (IF value >= 128 THEN 128 ELSE 0)

\* C11: the first instruction of a freshly constructed Cpu, when it is LDA #v,
\* LDX #v or LDY #v, completes with pc = CODE_START + 2, v in its register, the
\* other two registers 0, sp and memory as they were, and a status that holds
\* Zero iff v = 0, Negative iff v >= 0x80 and no other flag.
C11_ImmediateLoad ==
    [][(StepTaken /\ last = NoInstruction /\ Peek(memory, pc) \in {169, 162, 160}) =>
          LET v == Peek(memory, pc + 1)
              opcode == Peek(memory, pc)
          IN /\ panic' = NoPanic
             /\ pc' = 49152 + 2
             /\ a' = (IF opcode = 169 THEN v ELSE 0)
             /\ x' = (IF opcode = 162 THEN v ELSE 0)
             /\ y' = (IF opcode = 160 THEN v ELSE 0)
             /\ sp' = sp
             /\ memory' = memory
             /\ status' = ZeroNegativeOnly(v)
             /\ v = 17 => status' = 0
             /\ v = 0 => status' = Zero
             /\ v = 255 => status' = Negative]_vars

\* LDY #0xFF has run as the first instruction: only Negative is set
C11_Witness ==
    /\ image = Load(<<160, 255>>)
    /\ last.address = CODE_START
    /\ y = 255 /\ a = 0 /\ x = 0
    /\ status = Negative
    /\ pc = CODE_START + 2
    /\ sp = 255

---------------------------------------------------------------------------
(* C12 *)

\* C12: LSR A leaves A = a >> 1 and Carry = bit 0 of a; ROL A leaves
\* A = ((a << 1) | c) mod 256 and Carry = bit 7 of a; ROR A leaves
\* A = (a >> 1) | (c << 7) and Carry = bit 0 of a, c being Carry before; Zero and
\* Negative are those of the new A.  The program of main.rs (LDA #0x11;
\* LDX #0x20; LDY #0x40; LSR A) ends with A = 0x08, Carry set, Zero and
\* Negative clear.
C12_AccumulatorShifts ==
    /\ [][(StepTaken /\ last'.byte \in {74, 42, 106}) =>
             LET c == IF HasFlag(status, Carry) THEN 1 ELSE 0
                 result == CASE last'.byte = 74 -> a \div 2
                             [] last'.byte = 42 -> (a * 2 + c) % 256
                             [] last'.byte = 106 -> (a \div 2) + 128 * c
                 carry == IF last'.byte = 42 THEN a >= 128 ELSE a % 2 = 1
             IN /\ panic' = NoPanic
                /\ a' = result
                /\ HasFlag(status', Carry) <=> carry
                /\ HasFlag(status', Zero) <=> (result = 0)
                /\ HasFlag(status', Negative) <=> (result >= 128)]_vars
    /\ []((image = Load(MainProgram) /\ last.address = CODE_START + 6) =>
             /\ panic = NoPanic
             /\ a = 8 /\ x = 32 /\ y = 64
             /\ HasFlag(status, Carry)
             /\ ~HasFlag(status, Zero)
             /\ ~HasFlag(status, Negative))

\* main.rs has run: run(Some(3)), then run(Some(1)) executed LSR A
C12_Witness ==
    /\ image = Load(MainProgram)
    /\ calls = <<Some(3), Some(1)>>
    /\ runs = 2
    /\ last.byte = 74
    /\ a = 8
    /\ HasFlag(status, Carry)

---------------------------------------------------------------------------
(* C13 *)

\* what LSR, ROL and ROR make of a value and the Carry before
ShiftResult(opcode, value, carry) ==
    CASE opcode = "Lsr" -> value \div 2
      [] opcode = "Rol" -> (value * 2 + carry) % 256
      [] opcode = "Ror" -> (value \div 2) + 128 * carry

\* the address a memory-mode operand at operand_address names
EffectiveAddress(mode, operand_address) ==
    LET lo == Peek(memory, operand_address)
        hi == Peek(memory, operand_address + 1)
    IN CASE mode = "ZeroPage" -> lo
         [] mode = "ZeroPageX" -> (lo + x) % 256
         [] mode = "Absolute" -> lo + 256 * hi
         [] mode = "AbsoluteX" -> (lo + 256 * hi + x) % 65536

\* C13: a completed LSR, ROL or ROR in a memory mode replaces the byte at its
\* effective address by the result and changes no other byte and none of A, X,
\* Y; in Accumulator mode it changes no byte of memory and neither X nor Y.
C13_ShiftWritesBack ==
    [][(StepTaken /\ Executed(last') \in {"Lsr", "Rol", "Ror"} /\ panic' = NoPanic) =>
          LET mode == last'.instruction.addressing_mode
              carry == IF HasFlag(status, Carry) THEN 1 ELSE 0
          IN IF mode = "Accumulator"
             THEN memory' = memory /\ x' = x /\ y' = y
             ELSE LET address == EffectiveAddress(mode, pc + 1)
                      result == ShiftResult(Executed(last'), Peek(memory, address), carry)
                  IN /\ memory' = Poke(memory, address, result)
                     /\ a' = a
                     /\ x' = x
                     /\ y' = y]_vars

---------------------------------------------------------------------------
(* C14 *)

\* C14: on a new Memory, for every address 0x0000..0xFFFF and byte v,
\* write(address, v) and the read that follows do not fail, read(address)
\* returns v, and a read of any other address returns the 0 it held before.
C14_PlainStore ==
    /\ panic = NoPanic
    /\ access.op = "read" =>
          access.value = (IF access.address = access.written THEN access.data ELSE 0)

---------------------------------------------------------------------------
(* C15 *)

\* the condition each branch tests
BranchTaken(opcode, flags) ==
    CASE opcode = "Bcc" -> ~HasFlag(flags, Carry)
      [] opcode = "Bcs" -> HasFlag(flags, Carry)
      [] opcode = "Bne" -> ~HasFlag(flags, Zero)
      [] opcode = "Beq" -> HasFlag(flags, Zero)
      [] opcode = "Bpl" -> ~HasFlag(flags, Negative)
      [] opcode = "Bmi" -> HasFlag(flags, Negative)
      [] opcode = "Bvc" -> ~HasFlag(flags, Overflow)
      [] opcode = "Bvs" -> HasFlag(flags, Overflow)

\* C15: a branch whose offset byte can be read completes; pc becomes the
\* address after the offset byte, plus the offset as a signed byte when the
\* branch's condition holds; no flag, register or byte of memory changes.
C15_Branches ==
    [][(/\ StepTaken
        /\ Executed(last') \in {"Bcc", "Bcs", "Beq", "Bne", "Bmi", "Bpl", "Bvc", "Bvs"}
        /\ pc + 1 < MAX_MEMORY)
       => LET offset == Peek(memory, pc + 1)
              signed == IF offset >= 128 THEN offset - 256 ELSE offset
              target == IF BranchTaken(Executed(last'), status)
                        THEN (pc + 2 + signed + 65536) % 65536
                        ELSE pc + 2
          IN /\ panic' = NoPanic
             /\ pc' = target
             /\ a' = a /\ x' = x /\ y' = y /\ sp' = sp
             /\ status' = status
             /\ memory' = memory]_vars

---------------------------------------------------------------------------
(* C16 *)

\* the Cpu that Cpu::new(image) returns
Constructed ==
    [CpuNow EXCEPT !.memory = CpuNew(image).memory, !.pc = CpuNew(image).pc,
                   !.sp = CpuNew(image).sp, !.a = CpuNew(image).a,
                   !.x = CpuNew(image).x, !.y = CpuNew(image).y,
                   !.status = CpuNew(image).status]

\* the Cpu after one call run(Some(n)) on the Cpu c, a panic ending it early
RECURSIVE SingleRun(_, _)
SingleRun(c, n) ==
    IF n = 0 \/ ~Alive(c) THEN c
    ELSE With(execute_next_instruction(c), LAMBDA next : SingleRun(next, n - 1))

\* the instructions asked of the calls of run that have returned, plus those
\* the current call has started
RECURSIVE Asked(_)
Asked(k) == IF k = 0 THEN 0 ELSE calls[k][1] + Asked(k - 1)

Started ==
    Asked(runs) + (IF runs < Len(calls) THEN i + (IF panic = NoPanic THEN 0 ELSE 1) ELSE 0)

\* C16: after any sequence of bounded calls run(Some(n1)), run(Some(n2)), ..
\* on a constructed Cpu, at every point of it, pc, sp, A, X, Y, status and memory
\* (and the panic, if one has ended it) are those a single call of run leaves
\* after as many instructions from the same constructed Cpu; in particular
\* run(Some(n)); run(Some(m)) ends as run(Some(n + m)) does.
C16_Resumption ==
    (calls # <<>> /\ \A k \in DOMAIN calls : calls[k] # None) =>
        \E single \in {SingleRun(Constructed, Started)} :
            /\ memory = single.memory
            /\ pc = single.pc
            /\ sp = single.sp
            /\ a = single.a
            /\ x = single.x
            /\ y = single.y
            /\ status = single.status
            /\ panic = single.panic

\* run(Some(3)); run(Some(3)) of the call-and-return program has returned where
\* run(Some(6)) does
C16_Witness ==
    /\ image = Load(CallProgram)
    /\ calls = <<Some(3), Some(3)>>
    /\ runs = 2
    /\ ~running
    /\ x = 2 /\ y = 3
    /\ pc = CODE_START + 13

---------------------------------------------------------------------------
(* C17 *)

\* the stores of the last instruction, pushes included, in order
Stores(trace) == SelectSeq(trace, LAMBDA e : e.op \in {"write", "push"})

\* the k-th store is the last one the instruction made to its address
IsFinalStore(stores, k) ==
    \A n \in DOMAIN stores : n > k => stores[n].address # stores[k].address

\* C17: when the instruction before stored v at address X, the next
\* instruction's opcode fetch from X returns v, and so does its fetch of an
\* immediate operand or of a byte of an absolute jump target from X; every
\* opcode and operand fetch returns the byte memory holds at that moment.
C17_StoresAreFetched ==
    [][(StepTaken /\ last'.byte >= 0) =>
          LET mode == last'.instruction.addressing_mode
              opcode == Executed(last')
              loaded == CASE opcode = "Ldx" -> x' [] opcode = "Ldy" -> y' [] OTHER -> a'
              load == panic' = NoPanic /\ opcode \in {"Lda", "Ldx", "Ldy"}
                         /\ mode = "Immediate"
              jump == panic' = NoPanic /\ opcode = "Jmp" /\ mode = "Absolute"
              stores == Stores(last.trace)
          IN /\ last'.byte = Peek(memory, pc)
             /\ \A k \in DOMAIN stores :
                  IsFinalStore(stores, k) =>
                     /\ stores[k].address = pc => last'.byte = stores[k].value
                     /\ (stores[k].address = pc + 1 /\ load) => loaded = stores[k].value
                     /\ (stores[k].address = pc + 1 /\ jump) => pc' % 256 = stores[k].value
                     /\ (stores[k].address = pc + 2 /\ jump) =>
                           pc' \div 256 = stores[k].value
             /\ load => loaded = Peek(memory, pc + 1)
             /\ jump => pc' = Peek(memory, pc + 1) + 256 * Peek(memory, pc + 2)
    ]_vars

\* JSR $01FE from 0xC0A7 pushed 0xC0 and 0xA9; the next instruction, fetched
\* from those two bytes of the stack page, was LDA #0xC0
C17_Witness ==
    /\ image = Load(Nops(167) \o <<32, 254, 1>>)
    /\ last.address = 510
    /\ last.byte = 169
    /\ a = 192
    /\ panic = NoPanic

---------------------------------------------------------------------------
(* C18 *)

\* the seven flags that have a name
NamedFlags == {Carry, Zero, InterruptDisable, DecimalMode, Break, Overflow, Negative}

\* the Cpu before this step, had bit 5 of the byte on top of the stack been the
\* other way
WithOtherBit5 ==
    [CpuNow EXCEPT !.memory = Poke(memory, 256 + sp + 1,
                                   BitXor(Peek(memory, 256 + sp + 1), 32))]

\* C18: a completed PLP leaves each of the seven named flags equal to its bit
\* of the popped byte, and leaves bit 5 of the status the same whatever bit 5 of
\* the popped byte is; the byte a PHP pushes is the status.
C18_PlpReplacesStatus ==
    [][(StepTaken /\ panic' = NoPanic) =>
          /\ Executed(last') = "Plp" =>
                LET popped == Peek(memory, 256 + sp + 1)
                IN /\ \A flag \in NamedFlags :
                         HasFlag(status', flag) <=> HasFlag(popped, flag)
                   /\ HasFlag(status', Unused) <=>
                         HasFlag(execute_plp(WithOtherBit5, "Implicit").status, Unused)
          /\ Executed(last') = "Php" =>
                /\ Len(last'.trace) = 1
                /\ last'.trace[1].op = "push"
                /\ last'.trace[1].value = status]_vars

---------------------------------------------------------------------------
(* C19 *)

\* C19: an RTI that finds three bytes on the stack pops the status from
\* 0x100 + sp + 1, the low byte of pc from 0x100 + sp + 2 and the high byte from
\* 0x100 + sp + 3, in that order: the status is the first byte,
\* pc = (high << 8) | low with nothing added, sp is 3 higher, and A, X, Y and
\* memory are as before.  Only the trace line of a debug build, which evaluates
\* pc - 1, can stop the run afterwards, and only when pc = 0.
C19_Rti ==
    [][(StepTaken /\ Executed(last') = "Rti" /\ sp <= 252) =>
          LET flags == Peek(memory, 256 + sp + 1)
              low == Peek(memory, 256 + sp + 2)
              high == Peek(memory, 256 + sp + 3)
          IN /\ [k \in 1 .. Len(last'.trace) |->
                    <<last'.trace[k].op, last'.trace[k].address, last'.trace[k].value>>]
                = << <<"pop", 256 + sp + 1, flags>>,
                     <<"pop", 256 + sp + 2, low>>,
                     <<"pop", 256 + sp + 3, high>> >>
             /\ status' = flags
             /\ pc' = high * 256 + low
             /\ sp' = sp + 3
             /\ a' = a /\ x' = x /\ y' = y
             /\ memory' = memory
             /\ panic' = IF debug_assertions /\ high * 256 + low = 0
                         THEN "attempt to subtract with overflow"
                         ELSE NoPanic]_vars

\* LDA #0xC0; PHA; LDA #0x0A; PHA; LDA #0xC3; PHA; RTI has run: RTI has popped
\* 0xC3, 0x0A and 0xC0 and continues at 0xC00A, not at 0xC00B
C19_Witness ==
    /\ image = Load(<<169, 192, 72, 169, 10, 72, 169, 195, 72, 64>>)
    /\ Executed(last) = "Rti"
    /\ last.address = CODE_START + 9
    /\ Len(last.trace) = 3
    /\ status = 195
    /\ pc = CODE_START + 10
    /\ sp = 255
    /\ a = 195
    /\ panic = NoPanic

---------------------------------------------------------------------------
(* C20 *)

\* the instructions that do not redirect control
Sequential ==
    {"Adc", "Lda", "Ldx", "Ldy", "Lsr", "Ora", "Rol", "Ror", "Pha", "Php", "Pla", "Plp",
     "Nop"}

\* the number of operand bytes that follow the opcode
OperandLength(addressing_mode) ==
    CASE addressing_mode \in {"Implicit", "Accumulator"} -> 0
      [] addressing_mode \in {"Immediate", "ZeroPage", "ZeroPageX", "ZeroPageY",
                              "IndexedIndirect", "IndirectIndexed"} -> 1
      [] addressing_mode \in {"Absolute", "AbsoluteX", "AbsoluteY"} -> 2

\* C20: after an instruction that does not redirect control has completed, pc
\* is the address of its opcode plus 1 plus the operand length of its
\* addressing mode, and the opcode was fetched where pc pointed before.
C20_PcAdvance ==
    [][(StepTaken /\ Executed(last') \in Sequential /\ panic' = NoPanic) =>
          /\ last'.address = pc
          /\ pc' = pc + 1 + OperandLength(last'.instruction.addressing_mode)]_vars

\* LDA #acc; LDX #xv; LSR $C008 has completed: the three-byte instruction at
\* 0xC004 leaves pc at 0xC007
C20_Witness ==
    /\ Executed(last) = "Lsr"
    /\ last.instruction.addressing_mode = "Absolute"
    /\ last.address = CODE_START + 4
    /\ pc = CODE_START + 7
    /\ panic = NoPanic

---------------------------------------------------------------------------
(* C21 *)

\* C21: an RTS that finds two bytes on the stack completes and resumes at the
\* popped word plus 1 modulo 2^16 (at 0x0000 after popping 0xFFFF), and no
\* instruction stops on an overflowing addition.
C21_WrappingArithmetic ==
    [][StepTaken =>
          /\ panic' # "attempt to add with overflow"
          /\ (Executed(last') = "Rts" /\ sp <= 253) =>
                LET low == Peek(memory, 256 + sp + 1)
                    high == Peek(memory, 256 + sp + 2)
                IN /\ pc' = (high * 256 + low + 1) % WordModulus
                   /\ panic' \in {NoPanic, "attempt to subtract with overflow"}]_vars

---------------------------------------------------------------------------
(* C22 *)

\* C22: right after construction, before any instruction has run, sp is 0x0100,
\* pc is CODE_START, A = X = Y = 0 and the status is empty.
C22_RunCodeAssertions ==
    (last = NoInstruction) =>
        /\ pc = CODE_START
        /\ sp = 256
        /\ a = 0 /\ x = 0 /\ y = 0
        /\ status = StatusEmpty

---------------------------------------------------------------------------
(* C23 *)

\* the operand bytes at address and address + 1 can be fetched
Fetchable(address) ==
    /\ address + 1 < MAX_MEMORY
    /\ address # STDOUT_PORT
    /\ address + 1 # STDOUT_PORT

\* C23: a JSR whose opcode is at p, executed with sp = s >= 2, leaves the high
\* byte of p + 2 at 0x0100 + s and its low byte at 0x0100 + s - 1, pushed in that
\* order, sp = s - 2 and pc = the little-endian word of its two operand bytes; an
\* RTS that finds two bytes on the stack pops the low byte, then the high byte,
\* and resumes one past the word they form.
C23_JsrLayout ==
    /\ [][(StepTaken /\ Executed(last') = "Jsr" /\ sp >= 2 /\ Fetchable(pc + 1)) =>
             LET operand == Peek(memory, pc + 2) * 256 + Peek(memory, pc + 1)
             IN /\ last'.address = pc
                /\ Peek(memory', 256 + sp) = (pc + 2) \div 256
                /\ Peek(memory', 256 + sp - 1) = (pc + 2) % 256
                /\ [k \in 1 .. Len(last'.trace) |->
                       <<last'.trace[k].op, last'.trace[k].address, last'.trace[k].value>>]
                   = << <<"push", 256 + sp, (pc + 2) \div 256>>,
                        <<"push", 256 + sp - 1, (pc + 2) % 256>> >>
                /\ sp' = sp - 2
                /\ pc' = operand
                /\ panic' = IF debug_assertions /\ operand = 0
                            THEN "attempt to subtract with overflow"
                            ELSE NoPanic]_vars
    /\ [][(StepTaken /\ Executed(last') = "Rts" /\ sp <= 253) =>
             LET low == Peek(memory, 256 + sp + 1)
                 high == Peek(memory, 256 + sp + 2)
             IN /\ [k \in 1 .. Len(last'.trace) |->
                       <<last'.trace[k].op, last'.trace[k].address, last'.trace[k].value>>]
                   = << <<"pop", 256 + sp + 1, low>>, <<"pop", 256 + sp + 2, high>> >>
                /\ sp' = sp + 2
                /\ high * 256 + low < WordModulus - 1 =>
                      (pc' = high * 256 + low + 1 /\ panic' = NoPanic)]_vars

\* PHA; JSR $C001, the JSR calling itself: its second execution, with
\* sp = 0xFC, has left 0xC0 at 0x01FC and 0x03 at 0x01FB
C23_Witness ==
    /\ image = Load(<<72, 32, Lo(CODE_START + 1), Hi(CODE_START + 1)>>)
    /\ Executed(last) = "Jsr"
    /\ last.address = CODE_START + 1
    /\ sp = 250
    /\ Peek(memory, 256 + 252) = 192
    /\ Peek(memory, 256 + 251) = 3
    /\ pc = CODE_START + 1
    /\ panic = NoPanic

---------------------------------------------------------------------------
(* C24 *)

\* the bytes at address and address + 1 can be read
Readable(address) ==
    /\ address + 1 < MAX_MEMORY
    /\ address # STDOUT_PORT
    /\ address + 1 # STDOUT_PORT

\* the little-endian word stored at address and address + 1
WordAt(m, address) == Peek(m, address + 1) * 256 + Peek(m, address)

\* C24: a JMP whose operand (and, for Indirect, whose pointer) can be read sets
\* pc to the resolved address, the operand word for Absolute and the word stored
\* at the operand for Indirect, and changes nothing else: sp, every byte of
\* memory, A, X, Y and the status are as before and nothing is pushed or popped.
C24_JmpFrame ==
    [][(/\ StepTaken
        /\ Executed(last') = "Jmp"
        /\ Fetchable(pc + 1)
        /\ last'.instruction.addressing_mode = "Indirect" => Readable(WordAt(memory, pc + 1)))
       => LET operand == WordAt(memory, pc + 1)
              resolved == IF last'.instruction.addressing_mode = "Indirect"
                          THEN WordAt(memory, operand) ELSE operand
          IN /\ last'.instruction.addressing_mode \in {"Absolute", "Indirect"}
             /\ pc' = resolved
             /\ sp' = sp
             /\ memory' = memory
             /\ a' = a /\ x' = x /\ y' = y
             /\ status' = status
             /\ last'.trace = <<>>
             /\ panic' = IF debug_assertions /\ resolved = 0
                         THEN "attempt to subtract with overflow"
                         ELSE NoPanic]_vars

\* LDA #b1; PHA; ...; PHA; JMP $C000 has jumped back after one round: pc is
\* 0xC000 again, with the registers and the stack as the round left them
C24_Witness ==
    /\ image = Load(<<169, 127, 72, 169, 200, 72, 104, 104, 72, 76, 0, 192>>)
    /\ Executed(last) = "Jmp"
    /\ last.instruction.addressing_mode = "Absolute"
    /\ last.address = CODE_START + 9
    /\ pc = CODE_START
    /\ sp = 254
    /\ a = 127
    /\ Peek(memory, 256 + 255) = 127
    /\ panic = NoPanic

---------------------------------------------------------------------------
(* C25 *)

\* an indirect JMP whose operand bytes, and the two bytes at the operand word,
\* can be read
IndirectJmp ==
    /\ StepTaken
    /\ Executed(last') = "Jmp"
    /\ last'.instruction.addressing_mode = "Indirect"
    /\ Fetchable(pc + 1)
    /\ Readable(WordAt(memory, pc + 1))

\* C25 as stated: with op the word of the two operand bytes, a pointer is read
\* from address op, and the effective address is the word formed by the two
\* bytes stored at that pointer.
C25_PointerOfPointer ==
    [][(IndirectJmp /\ Readable(WordAt(memory, WordAt(memory, pc + 1)))) =>
          pc' = WordAt(memory, WordAt(memory, WordAt(memory, pc + 1)))]_vars

\* C25: with op the word of the two operand bytes of an indirect JMP, the
\* effective address is the little-endian word formed by the bytes stored at op
\* and op + 1, the high byte taken from op + 1 also when op ends a page; there
\* is one level of indirection.
C25_Indirect ==
    [][IndirectJmp =>
          LET op == WordAt(memory, pc + 1)
          IN /\ pc' = Peek(memory, op + 1) * 256 + Peek(memory, op)
             /\ memory' = memory
             /\ panic' \in {NoPanic, "attempt to subtract with overflow"}]_vars

\* JMP ($C0FF) has run with 0x34 stored at 0xC0FF and 0x12 at 0xC100
C25_Witness ==
    /\ image = Load(<<108, 255, Hi(CODE_START)>> \o Nops(252) \o <<52, 18>>)
    /\ Executed(last) = "Jmp"
    /\ last.instruction.addressing_mode = "Indirect"
    /\ last.address = CODE_START
    /\ pc = 4660
    /\ panic = NoPanic

---------------------------------------------------------------------------
(* C26 *)

\* the modes that compute an address in page zero
ZeroPageModes == {"ZeroPageX", "ZeroPageY", "IndexedIndirect", "IndirectIndexed"}

\* the page-zero address a mode computes from its operand byte
ZeroPageAddress(mode, operand) ==
    CASE mode \in {"ZeroPageX", "IndexedIndirect"} -> (operand + x) % 256
      [] mode = "ZeroPageY" -> (operand + y) % 256
      [] mode = "IndirectIndexed" -> operand

\* the effective address when both bytes of a pointer at page-zero address zp
\* are taken from page zero
WithinPageZero(mode, zp) ==
    LET pointer == Peek(memory, (zp + 1) % 256) * 256 + Peek(memory, zp)
    IN CASE mode \in {"ZeroPageX", "ZeroPageY"} -> zp
         [] mode = "IndexedIndirect" -> pointer
         [] mode = "IndirectIndexed" -> (pointer + y) % WordModulus

\* C26: a completed LDA, LDX or LDY in ZeroPageX or ZeroPageY mode loads the byte
\* at (operand + X or Y) mod 256, and in IndexedIndirect or IndirectIndexed mode
\* loads through a pointer whose two bytes are both read from page zero, the
\* high byte of a pointer at 0x00FF coming from 0x0000.
C26_ZeroPageWraps ==
    [][(/\ StepTaken
        /\ Executed(last') \in {"Lda", "Ldx", "Ldy"}
        /\ last'.instruction.addressing_mode \in ZeroPageModes
        /\ panic' = NoPanic)
       => LET mode == last'.instruction.addressing_mode
              loaded == CASE Executed(last') = "Lda" -> a'
                          [] Executed(last') = "Ldx" -> x'
                          [] Executed(last') = "Ldy" -> y'
          IN loaded = Peek(memory, WithinPageZero(mode,
                               ZeroPageAddress(mode, Peek(memory, pc + 1))))]_vars

---------------------------------------------------------------------------
(* C27 *)

\* the instructions that use the stack
StackUsers == {"Pha", "Php", "Pla", "Plp", "Jsr", "Rts", "Rti"}

\* the stack pointer when the k-th stack access of the instruction starts
SpAt(trace, k) ==
    sp - CountOp(SubSeq(trace, 1, k - 1), "push") + CountOp(SubSeq(trace, 1, k - 1), "pop")

\* C27: sp is always a byte, only PHA, PHP, PLA, PLP, JSR, RTS and RTI push or
\* pop, and every push writes at 0x0100 + sp with sp as it is before the
\* decrement, every pop reads at 0x0100 + sp with sp as it is after the
\* increment: each address lies in 0x0100 .. 0x01FF.
C27_StackPage ==
    /\ [](sp \in 0 .. 255)
    /\ [][StepTaken =>
            \A k \in 1 .. Len(last'.trace) :
                LET event == last'.trace[k]
                IN event.op \in {"push", "pop"} =>
                      /\ Executed(last') \in StackUsers
                      /\ event.address \in STACK_START .. STACK_END
                      /\ event.op = "push" => event.address = STACK_START + SpAt(last'.trace, k)
                      /\ event.op = "pop" =>
                            event.address = STACK_START + SpAt(last'.trace, k) + 1]_vars

\* PHP; PLP has run: the PLP, started with sp = 0xFE, has read 0x01FF
C27_Witness ==
    /\ image = Load(<<8, 40, 40>>)
    /\ Executed(last) = "Plp"
    /\ last.address = CODE_START + 1
    /\ Len(last.trace) = 1
    /\ last.trace[1].op = "pop"
    /\ last.trace[1].address = STACK_END
    /\ sp = 255
    /\ panic = NoPanic

---------------------------------------------------------------------------
(* C28 *)

\* the number of PHA that LDA #0xAB; PHA; PHA; ... has executed
PushesDone == IF Executed(last) = "Pha" THEN last.address - CODE_START - 1 ELSE 0

\* C28: a push that halts the run has first written its byte to 0x0100 and
\* leaves sp = 0x00; and from a fresh Cpu, LDA #0xAB followed by 256 PHA makes
\* exactly 255 pushes succeed, the k-th filling 0x0200 - k and leaving
\* sp = 0xFF - k with 0x0100 still untouched, and halts in the 256th with 0xAB
\* written to 0x0100 and sp = 0x00.
C28_FailingPush ==
    /\ [][(StepTaken /\ panic' = "stack overflow") =>
             LET event == last'.trace[Len(last'.trace)]
             IN /\ event.op = "push"
                /\ event.address = STACK_START
                /\ Peek(memory', STACK_START) = event.value
                /\ \A address \in (DOMAIN memory \cup DOMAIN memory') \ {STACK_START} :
                      Len(last'.trace) = 1 => Peek(memory', address) = Peek(memory, address)
                /\ SpAt(last'.trace, Len(last'.trace)) = 0
                /\ sp' = 0]_vars
    /\ []((image = Load(PushProgram) /\ last # NoInstruction) =>
             /\ PushesDone <= 255 =>
                   /\ panic = NoPanic
                   /\ sp = 255 - PushesDone
                   /\ \A j \in 0 .. 255 :
                         Peek(memory, STACK_START + j) =
                             IF j > 255 - PushesDone THEN 171 ELSE 0
             /\ PushesDone = 256 =>
                   /\ panic = "stack overflow"
                   /\ sp = 0
                   /\ \A j \in 0 .. 255 : Peek(memory, STACK_START + j) = 171)

\* the 256th PHA of LDA #0xAB; PHA; ... has halted the run with 0xAB at 0x0100
C28_Witness ==
    /\ image = Load(PushProgram)
    /\ Executed(last) = "Pha"
    /\ last.address = CODE_START + 257
    /\ panic = "stack overflow"
    /\ sp = 0
    /\ Peek(memory, STACK_START) = 171
    /\ Peek(memory, STACK_START + 1) = 171

---------------------------------------------------------------------------
(* C29 *)

\* the operations whose handler resolves an operand
Resolving == {"Adc", "Jmp", "Jsr", "Lda", "Ldx", "Ldy", "Lsr", "Ora", "Rol", "Ror"}

\* the modes resolve_argument_address has no address for
Addressless == {"Implicit", "Accumulator", "Immediate", "Relative"}

\* the mode a handler passes to resolve_argument_address, "none" when it
\* returns without calling it: the value handlers take an Immediate operand
\* themselves, the shifts and rotates take the accumulator themselves
ResolverArgument(instruction) ==
    IF \/ /\ instruction.opcode \in {"Adc", "Lda", "Ldx", "Ldy", "Ora"}
          /\ instruction.addressing_mode \in {"Immediate", "Accumulator"}
       \/ /\ instruction.opcode \in {"Lsr", "Rol", "Ror"}
          /\ instruction.addressing_mode = "Accumulator"
    THEN "none"
    ELSE instruction.addressing_mode

\* the halts of the resolver's fail-fast arms and of the mode assertion of LSR
FailFast ==
    {"unreachable: addressing mode does not have an address",
     "not implemented: addressing mode",
     "assertion failed: left != right"}

\* every byte decoded as a resolving operation has a mode its handler can pass
\* on, and LSR is never decoded with Immediate
DecodedModesResolve ==
    \A byte \in Byte :
        LET instruction == TryFrom(byte)
        IN (instruction.ok /\ instruction.opcode \in Resolving) =>
              /\ ResolverArgument(instruction) \notin Addressless
              /\ instruction.opcode = "Lsr" => instruction.addressing_mode # "Immediate"

\* C29: no run halts in an unreachable! or unimplemented! arm of the resolver or
\* in the mode assertion of LSR, and for every byte the decoder accepts as ADC,
\* JMP, JSR, LDA, LDX, LDY, LSR, ORA, ROL or ROR the handler never passes
\* Implicit, Accumulator, Immediate or Relative to resolve_argument_address, and
\* LSR is never decoded with Immediate.
C29_FailFastUnreachable ==
    /\ panic \notin FailFast
    /\ DecodedModesResolve

\* LDA #1; PHA; PLP; LDA #1; ROR A has run: the rotate took its operand from the
\* accumulator and the loads theirs from the instruction stream
C29_Witness ==
    /\ image = Load(<<169, 1, 72, 40, 169, 1, 106>>)
    /\ Executed(last) = "Ror"
    /\ last.instruction.addressing_mode = "Accumulator"
    /\ a = 128
    /\ HasFlag(status, Carry)
    /\ panic = NoPanic
====
